---------------------------- MODULE Spec2Model ----------------------------
(***************************************************************************)
(* A model of the travel planner's deterministic core:                     *)
(*   - tools/policy_rag.py      check_policy_compliance                    *)
(*   - tools/travel_history.py  load_travel_history, analyze_preferences,  *)
(*                              format_preferences_summary                 *)
(*   - crew_setup_new.py        run_travel_crew, run_simple_mode (ranking  *)
(*                              and package assembly)                      *)
(*   - tools/booking.py         save_booking_record                       *)
(* Python values are records [t, s, n]: t is the type tag, s the text (a   *)
(* sequence of one-character strings) and n the number or the length.      *)
(***************************************************************************)
EXTENDS Integers, Sequences, FiniteSets, TLC

VARIABLES trip, policy_result,
          travel_history, preferences, summary,
          flights, hotels, cars,
          preferred_airlines, preferred_hotels, preferred_cars,
          pc, flight_keys, flights_sorted, hotels_sorted, cars_sorted,
          reranked, packages, flight_table,
          history_file, loaded,
          booking_file, records_before, save_result,
          crew_call, crew_pc, crew_result,
          trip_details, tool_result,
          found_flights, search_pc,
          current_packages, ui, last_booking, open_sessions, search_outcomes,
          clock, calls

policyVars == <<trip, policy_result>>
prefsVars == <<travel_history, preferences, summary>>
planVars == <<flights, hotels, cars,
              preferred_airlines, preferred_hotels, preferred_cars,
              pc, flight_keys, flights_sorted, hotels_sorted, cars_sorted,
              reranked, packages, flight_table>>
loadVars == <<history_file, loaded>>
bookVars == <<booking_file, records_before, save_result>>
crewVars == <<crew_call, crew_pc, crew_result>>
toolVars == <<trip_details, tool_result>>
searchVars == <<found_flights, search_pc>>
appVars == <<current_packages, ui, last_booking, open_sessions, search_outcomes>>
confirmVars == <<clock, calls>>
extraVars == <<toolVars, searchVars, appVars, confirmVars>>
vars == <<policyVars, prefsVars, planVars, loadVars, bookVars, crewVars,
          extraVars>>

---------------------------------------------------------------------------
(* Python values                                                           *)

PyAbsent == [t |-> "absent", s |-> <<>>, n |-> 0]
PyNone == [t |-> "none", s |-> <<>>, n |-> 0]
PyStr(chars) == [t |-> "str", s |-> chars, n |-> 0]
PyInt(k) == [t |-> "int", s |-> <<>>, n |-> k]
PyList(len) == [t |-> "list", s |-> <<>>, n |-> len]

\* dict.get(key) with no default: a missing key reads as None.
Get(v) == IF v.t = "absent" THEN PyNone ELSE v

\* dict.get(key, default)
GetDefault(v, default) == IF v.t = "absent" THEN default ELSE v

\* Python truthiness of a value: bool(v).
Truthy(v) ==
    CASE v.t = "str" -> v.s # <<>>
      [] v.t = "int" -> v.n # 0
      [] v.t = "list" -> v.n # 0
      [] OTHER -> FALSE

---------------------------------------------------------------------------
(* Text: str.lower, str.strip, the `in` substring test                     *)

UpperChars == <<"A","B","C","D","E","F","G","H","I","J","K","L","M",
                "N","O","P","Q","R","S","T","U","V","W","X","Y","Z">>
LowerChars == <<"a","b","c","d","e","f","g","h","i","j","k","l","m",
                "n","o","p","q","r","s","t","u","v","w","x","y","z">>
DigitChars == <<"0","1","2","3","4","5","6","7","8","9">>
Whitespace == {" ", "\t"}

LowerChar(c) ==
    IF \E i \in DOMAIN UpperChars : UpperChars[i] = c
    THEN LowerChars[CHOOSE i \in DOMAIN UpperChars : UpperChars[i] = c]
    ELSE c

\* str.lower()
Lower(s) == [i \in DOMAIN s |-> LowerChar(s[i])]

\* s[from:] starts with sub
StartsWithAt(s, sub, from) ==
    /\ from + Len(sub) - 1 <= Len(s)
    /\ \A k \in 1..Len(sub) : s[from + k - 1] = sub[k]

RECURSIVE FindFrom(_, _, _)
\* the scan of `sub in s`: the first match at or after `from`, 0 when none
FindFrom(s, sub, from) ==
    IF from + Len(sub) - 1 > Len(s) THEN 0
    ELSE IF StartsWithAt(s, sub, from) THEN from
    ELSE FindFrom(s, sub, from + 1)

\* sub in s
Contains(s, sub) == FindFrom(s, sub, 1) # 0

RECURSIVE LStrip(_)
LStrip(s) == IF s # <<>> /\ Head(s) \in Whitespace THEN LStrip(Tail(s)) ELSE s

RECURSIVE RStrip(_)
RStrip(s) ==
    IF s # <<>> /\ s[Len(s)] \in Whitespace
    THEN RStrip(SubSeq(s, 1, Len(s) - 1)) ELSE s

\* str.strip()
Strip(s) == LStrip(RStrip(s))

---------------------------------------------------------------------------
(* Floats: float(x) and the format spec ",.0f".                            *)
(* A float is [k, v]: k is "fin", "nan", "inf" or "ninf" and v the value   *)
(* in tenths (texts carry at most one fractional digit).                   *)

Fin(tenths) == [k |-> "fin", v |-> tenths]
NaN == [k |-> "nan", v |-> 0]
PosInf == [k |-> "inf", v |-> 0]
NegInf == [k |-> "ninf", v |-> 0]
ParseError == [k |-> "error", v |-> 0]

IsDigit(c) == \E i \in DOMAIN DigitChars : DigitChars[i] = c
DigitVal(c) == (CHOOSE i \in DOMAIN DigitChars : DigitChars[i] = c) - 1
AllDigits(s) == \A i \in DOMAIN s : IsDigit(s[i])

RECURSIVE DigitsVal(_)
DigitsVal(s) ==
    IF s = <<>> THEN 0
    ELSE 10 * DigitsVal(SubSeq(s, 1, Len(s) - 1)) + DigitVal(s[Len(s)])

\* the unsigned decimal literal "ddd", "ddd.", ".d" or "ddd.d", in tenths
ParseDecimal(s) ==
    LET dot == FindFrom(s, <<".">>, 1)
        ip == IF dot = 0 THEN s ELSE SubSeq(s, 1, dot - 1)
        fp == IF dot = 0 THEN <<>> ELSE SubSeq(s, dot + 1, Len(s))
    IN  IF /\ AllDigits(ip) /\ AllDigits(fp)
           /\ Len(ip) + Len(fp) > 0
           /\ Len(fp) <= 1
        THEN Fin(10 * DigitsVal(ip) + DigitsVal(fp))
        ELSE ParseError

\* float(text): surrounding whitespace, a sign, nan / inf / infinity in any
\* case, or a decimal literal; anything else is a ValueError.
ParseFloat(s) ==
    LET t == Strip(s)
        signed == t # <<>> /\ Head(t) \in {"+", "-"}
        neg == t # <<>> /\ Head(t) = "-"
        body == IF signed THEN Tail(t) ELSE t
        low == Lower(body)
        mag == ParseDecimal(body)
    IN  IF low = <<"n","a","n">> THEN NaN
        ELSE IF low \in {<<"i","n","f">>, <<"i","n","f","i","n","i","t","y">>}
             THEN (IF neg THEN NegInf ELSE PosInf)
        ELSE IF mag.k = "error" THEN ParseError
        ELSE IF neg THEN Fin(0 - mag.v) ELSE mag

\* float(x or 0): a missing or empty budget read as 0
ToFloat_OrZero(x) ==
    CASE x.t = "int" -> Fin(10 * x.n)
      [] x.t = "str" -> IF x.s = <<>> THEN Fin(0) ELSE ParseFloat(x.s)
      [] OTHER -> Fin(0)

\* float(x) for a Python value: TypeError for None and lists, ValueError
\* for text that is no number; both are reported as ParseError.
ToFloat(x) ==
    CASE x.t = "int" -> Fin(10 * x.n)
      [] x.t = "str" -> ParseFloat(x.s)
      [] OTHER -> ParseError

\* f > n for an integer n; every comparison with nan is false
FloatGt(f, n) ==
    CASE f.k = "fin" -> f.v > 10 * n
      [] f.k = "inf" -> TRUE
      [] OTHER -> FALSE

RECURSIVE NatToStr(_)
NatToStr(n) ==
    IF n < 10 THEN <<DigitChars[n + 1]>>
    ELSE Append(NatToStr(n \div 10), DigitChars[(n % 10) + 1])

RECURSIVE Group3(_)
\* the "," option: a comma before every group of three digits
Group3(d) ==
    IF Len(d) <= 3 THEN d
    ELSE Group3(SubSeq(d, 1, Len(d) - 3)) \o <<",">> \o SubSeq(d, Len(d) - 2, Len(d))

\* round-half-even of a non-negative number of tenths
RoundHalfEven(tenths) ==
    LET q == tenths \div 10
        r == tenths % 10
    IN  IF r < 5 THEN q
        ELSE IF r > 5 THEN q + 1
        ELSE IF q % 2 = 0 THEN q ELSE q + 1

\* format(f, ",.0f")
FormatMoney(f) ==
    CASE f.k = "nan" -> <<"n","a","n">>
      [] f.k = "inf" -> <<"i","n","f">>
      [] f.k = "ninf" -> <<"-","i","n","f">>
      [] OTHER ->
            IF f.v < 0
            THEN <<"-">> \o Group3(NatToStr(RoundHalfEven(0 - f.v)))
            ELSE Group3(NatToStr(RoundHalfEven(f.v)))

---------------------------------------------------------------------------
(* tools/policy_rag.py: check_policy_compliance                            *)
(* A message is [id, arg]: id names the fixed text and arg is the text     *)
(* formatted into it.                                                      *)

Msg(id, arg) == [id |-> id, arg |-> arg]

BudgetLimit == 2000
BudgetApprovalLimit == 1500
ExpensiveHotelLimit == 250
StandardHotelLimit == 200

StatusNeedsReview == "Needs Review"
StatusApproved == "Approved"

expensive_cities ==
    << <<"n","e","w"," ","y","o","r","k">>,
       <<"n","y","c">>,
       <<"s","a","n"," ","f","r","a","n","c","i","s","c","o">>,
       <<"s","f","o">>,
       <<"l","o","s"," ","a","n","g","e","l","e","s">>,
       <<"l","a">>,
       <<"b","o","s","t","o","n">>,
       <<"w","a","s","h","i","n","g","t","o","n">>,
       <<"d","c">>,
       <<"s","e","a","t","t","l","e">>,
       <<"c","h","i","c","a","g","o">> >>

\* trip.get("destination", "").lower(): only text has .lower()
DestinationRaises(t) == GetDefault(t.destination, PyStr(<<>>)).t # "str"

\* the destination compared without .lower()
Destination_CaseSensitive(t) == GetDefault(t.destination, PyStr(<<>>)).s
Destination(t) == Lower(GetDefault(t.destination, PyStr(<<>>)).s)

\* any(city in destination for city in expensive_cities)
IsExpensiveCity(destination) ==
    \E i \in DOMAIN expensive_cities : Contains(destination, expensive_cities[i])

\* The accumulator threaded through the rules: the two lists, and raised,
\* the exception that ended the call ("" while none has).
EmptyAcc == [raised |-> "", violations |-> <<>>, notes |-> <<>>]
AddViolation(acc, m) == [acc EXCEPT !.violations = Append(@, m)]
AddNote(acc, m) == [acc EXCEPT !.notes = Append(@, m)]
Raise(acc, exc) == [acc EXCEPT !.raised = exc]

\* the purpose rule testing `is None` instead of truthiness
PurposeRule_IsNone(t, acc) ==
    LET purpose == Get(t.purpose)
    IN  IF purpose.t = "none"
        THEN AddViolation(acc, Msg("no_business_justification", <<>>))
        ELSE IF purpose.t # "str" THEN Raise(acc, "TypeError")
        ELSE AddNote(acc, Msg("business_purpose", purpose.s))

\* 1) Business purpose required.  "..." + purpose is a TypeError unless the
\* purpose is text.
PurposeRule(t, acc) ==
    LET purpose == Get(t.purpose)
    IN  IF ~Truthy(purpose)
        THEN AddViolation(acc, Msg("no_business_justification", <<>>))
        ELSE IF purpose.t # "str" THEN Raise(acc, "TypeError")
        ELSE AddNote(acc, Msg("business_purpose", purpose.s))

\* the budget test written budget >= 2000
OverBudget_Inclusive(budget) ==
    budget.k = "inf" \/ (budget.k = "fin" /\ budget.v >= 10 * BudgetLimit)

\* budget > 2000
OverBudget(budget) == FloatGt(budget, BudgetLimit)

\* 2) Check total budget; the bare except turns every failure into a note.
BudgetRule(t, acc) ==
    LET budget == ToFloat(GetDefault(t.budget, PyInt(0)))
    IN  IF budget.k = "error"
        THEN AddNote(acc, Msg("budget_unverified", <<>>))
        ELSE IF OverBudget(budget)
        THEN AddViolation(acc, Msg("budget_exceeds_limit", FormatMoney(budget)))
        ELSE IF FloatGt(budget, BudgetApprovalLimit)
        THEN AddNote(acc, Msg("budget_needs_approval", FormatMoney(budget)))
        ELSE AddNote(acc, Msg("budget_within_policy", FormatMoney(budget)))

\* 3) Flight policy
FlightRule(acc) ==
    AddNote(AddNote(acc, Msg("flight_policy", <<>>)), Msg("flight_mock", <<>>))

\* the hotel rule flagging expensive cities as a violation
HotelRule_Violation(is_expensive_city, acc) ==
    IF is_expensive_city
    THEN AddViolation(acc, Msg("hotel_expensive_city", NatToStr(ExpensiveHotelLimit)))
    ELSE AddNote(AddNote(acc, Msg("hotel_standard_city", NatToStr(StandardHotelLimit))),
                 Msg("hotel_discount", <<>>))

\* 4) Hotel policy
HotelRule(is_expensive_city, acc) ==
    LET hotel_limit == IF is_expensive_city THEN ExpensiveHotelLimit
                       ELSE StandardHotelLimit
        note == IF is_expensive_city
                THEN Msg("hotel_expensive_city", NatToStr(hotel_limit))
                ELSE Msg("hotel_standard_city", NatToStr(hotel_limit))
    IN  AddNote(AddNote(acc, note), Msg("hotel_discount", <<>>))

\* 5) Car rental policy
CarRule(acc) ==
    AddNote(AddNote(acc, Msg("car_policy", <<>>)), Msg("car_comply", <<>>))

\* 6) Preferred vendors
VendorRule(acc) ==
    AddNote(AddNote(AddNote(acc, Msg("preferred_airlines", <<>>)),
                    Msg("preferred_hotels", <<>>)),
            Msg("preferred_car_rentals", <<>>))

\* the status rule asking for more than one violation
OverallStatus_AtLeastTwo(violations) ==
    IF Len(violations) > 1 THEN StatusNeedsReview ELSE StatusApproved

\* Determine overall status
OverallStatus(violations) ==
    IF violations # <<>> THEN StatusNeedsReview ELSE StatusApproved

Raised(exc) ==
    [outcome |-> "raised", exc |-> exc, status |-> "",
     violations |-> <<>>, notes |-> <<>>]
Returned(acc) ==
    [outcome |-> "returned", exc |-> "", status |-> OverallStatus(acc.violations),
     violations |-> acc.violations, notes |-> acc.notes]
NotCalled ==
    [outcome |-> "none", exc |-> "", status |-> "",
     violations |-> <<>>, notes |-> <<>>]

check_policy_compliance(t) ==
    IF DestinationRaises(t) THEN Raised("AttributeError")
    ELSE
      LET is_expensive_city == IsExpensiveCity(Destination(t))
          a1 == PurposeRule(t, EmptyAcc)
      IN  IF a1.raised # "" THEN Raised(a1.raised)
          ELSE Returned(VendorRule(CarRule(HotelRule(is_expensive_city,
                            FlightRule(BudgetRule(t, a1))))))

---------------------------------------------------------------------------
(* tools/travel_history.py: analyze_preferences                            *)
(* A travel record is [Airline, Hotel, RentalCar, FlightClass, TotalCost], *)
(* each field a Python value as csv.DictReader delivers it.                *)

TopN == 3
DefaultFlightClass == <<"E","c","o","n","o","m","y">>

RECURSIVE Split(_)
\* str.split(): the whitespace-separated words of s
Split(s) ==
    LET t == LStrip(s)
        sp == CHOOSE i \in 1..(Len(t) + 1) :
                  /\ i = Len(t) + 1 \/ t[i] \in Whitespace
                  /\ \A j \in 1..(i - 1) : t[j] \notin Whitespace
    IN  IF t = <<>> THEN <<>>
        ELSE <<SubSeq(t, 1, sp - 1)>> \o Split(SubSeq(t, sp, Len(t)))

\* if trip.get("Airline"): airlines.append(trip["Airline"])
AirlineStep(r, st) ==
    IF Truthy(Get(r.Airline)) THEN [st EXCEPT !.airlines = Append(@, r.Airline.s)]
    ELSE st

\* if trip.get("Hotel"): hotels.append(trip["Hotel"].split()[0])
HotelStep(r, st) ==
    IF ~Truthy(Get(r.Hotel)) THEN st
    ELSE IF r.Hotel.t # "str" THEN [st EXCEPT !.raised = "AttributeError"]
    ELSE IF Split(r.Hotel.s) = <<>> THEN [st EXCEPT !.raised = "IndexError"]
    ELSE [st EXCEPT !.hotels = Append(@, Split(r.Hotel.s)[1])]

\* if trip.get("Rental Car") and trip["Rental Car"].lower() != "none": ...
RentalStep(r, st) ==
    IF ~Truthy(Get(r.RentalCar)) THEN st
    ELSE IF r.RentalCar.t # "str" THEN [st EXCEPT !.raised = "AttributeError"]
    ELSE IF Lower(r.RentalCar.s) = <<"n","o","n","e">> THEN st
    ELSE [st EXCEPT !.rental_cars = Append(@, r.RentalCar.s)]

\* if trip.get("Flight Class"): flight_classes.append(trip["Flight Class"])
FlightClassStep(r, st) ==
    IF Truthy(Get(r.FlightClass))
    THEN [st EXCEPT !.flight_classes = Append(@, r.FlightClass.s)]
    ELSE st

\* if trip.get("Total Cost"): try: costs.append(float(...)) except: pass
CostStep(r, st) ==
    IF Truthy(Get(r.TotalCost)) /\ ToFloat(r.TotalCost).k # "error"
    THEN [st EXCEPT !.costs = Append(@, ToFloat(r.TotalCost))]
    ELSE st

\* one pass of the loop body; an exception ends the loop
RecordStep(r, st) ==
    IF st.raised # "" THEN st
    ELSE LET s1 == AirlineStep(r, st)
             s2 == HotelStep(r, s1)
         IN  IF s2.raised # "" THEN s2
             ELSE LET s3 == RentalStep(r, s2)
                  IN  IF s3.raised # "" THEN s3
                      ELSE CostStep(r, FlightClassStep(r, s3))

EmptyLists ==
    [raised |-> "", airlines |-> <<>>, hotels |-> <<>>, rental_cars |-> <<>>,
     flight_classes |-> <<>>, costs |-> <<>>]

RECURSIVE Collect(_, _)
\* for trip in travel_history: ...
Collect(history, st) ==
    IF history = <<>> THEN st
    ELSE Collect(Tail(history), RecordStep(Head(history), st))

RECURSIVE CounterOf(_)
\* Counter(names): the (name, count) items in order of first occurrence
CounterOf(names) ==
    IF names = <<>> THEN <<>>
    ELSE LET before == CounterOf(SubSeq(names, 1, Len(names) - 1))
             last == names[Len(names)]
         IN  IF \E i \in DOMAIN before : before[i].name = last
             THEN [i \in DOMAIN before |->
                     IF before[i].name = last
                     THEN [before[i] EXCEPT !.count = @ + 1] ELSE before[i]]
             ELSE Append(before, [name |-> last, count |-> 1])

\* the insertion placing an item before the items of equal count
InsertPos_BeforeEqual(sorted, item) ==
    Cardinality({i \in DOMAIN sorted : sorted[i].count > item.count}) + 1

\* where item goes in a list sorted by descending count: after every item
\* whose count is at least its own
InsertPos(sorted, item) ==
    Cardinality({i \in DOMAIN sorted : sorted[i].count >= item.count}) + 1

InsertByCount(sorted, item) ==
    LET pos == InsertPos(sorted, item)
    IN  SubSeq(sorted, 1, pos - 1) \o <<item>> \o SubSeq(sorted, pos, Len(sorted))

RECURSIVE SortedByCount(_)
\* sorted(items, key=itemgetter(1), reverse=True)
SortedByCount(items) ==
    IF items = <<>> THEN <<>>
    ELSE InsertByCount(SortedByCount(SubSeq(items, 1, Len(items) - 1)),
                       items[Len(items)])

\* the slice s[:n]
FirstN(s, n) == SubSeq(s, 1, IF Len(s) < n THEN Len(s) ELSE n)

\* Counter(names).most_common(n), which is heapq.nlargest(n, items, key=count)
\* and returns what sorted(items, key=count, reverse=True)[:n] returns
MostCommon(names, n) == FirstN(SortedByCount(CounterOf(names)), n)

\* a + b on floats
FloatAdd(a, b) ==
    CASE a.k = "nan" \/ b.k = "nan" -> NaN
      [] a.k = "fin" /\ b.k = "fin" -> Fin(a.v + b.v)
      [] a.k = "fin" -> b
      [] b.k = "fin" -> a
      [] a.k = b.k -> a
      [] OTHER -> NaN

RECURSIVE FloatSum(_)
\* sum(costs)
FloatSum(costs) ==
    IF costs = <<>> THEN Fin(0)
    ELSE FloatAdd(FloatSum(SubSeq(costs, 1, Len(costs) - 1)), costs[Len(costs)])

\* sum(costs) / len(costs) if costs else 0, kept as the fraction sum / n
AverageCost(costs) ==
    IF costs = <<>> THEN [sum |-> Fin(0), n |-> 1]
    ELSE [sum |-> FloatSum(costs), n |-> Len(costs)]

\* The profile dictionary; has_total_trips tells whether it carries the
\* key "total_trips".
Profile(air, hot, car, class, avg, has_total, total) ==
    [outcome |-> "returned", exc |-> "",
     preferred_airlines |-> air, preferred_hotels |-> hot,
     preferred_rental_cars |-> car, typical_flight_class |-> class,
     average_trip_cost |-> avg, has_total_trips |-> has_total,
     total_trips |-> total]

NoProfile ==
    [Profile(<<>>, <<>>, <<>>, <<>>, [sum |-> Fin(0), n |-> 1], FALSE, 0)
        EXCEPT !.outcome = "none"]
ProfileRaised(exc) == [NoProfile EXCEPT !.outcome = "raised", !.exc = exc]

analyze_preferences(history) ==
    IF history = <<>>
    THEN Profile(<<>>, <<>>, <<>>, DefaultFlightClass, [sum |-> Fin(0), n |-> 1],
                 FALSE, 0)
    ELSE
      LET st == Collect(history, EmptyLists)
          flight_class_counts == MostCommon(st.flight_classes, 1)
      IN  IF st.raised # "" THEN ProfileRaised(st.raised)
          ELSE Profile(MostCommon(st.airlines, TopN),
                       MostCommon(st.hotels, TopN),
                       MostCommon(st.rental_cars, TopN),
                       IF flight_class_counts # <<>>
                       THEN flight_class_counts[1].name ELSE DefaultFlightClass,
                       AverageCost(st.costs), TRUE, Len(history))

---------------------------------------------------------------------------
(* The trip requests the policy check is applied to                        *)

MaxDestLen == 2
MaxBudgetDelta == 1

RECURSIVE SeqsUpTo(_, _)
\* every sequence over alphabet of length at most n
SeqsUpTo(alphabet, n) ==
    IF n = 0 THEN { <<>> }
    ELSE LET shorter == SeqsUpTo(alphabet, n - 1)
         IN  shorter \cup { Append(s, c) : s \in shorter, c \in alphabet }

DestAlphabet == {"l", "a", "L", "d", "c"}

CityTexts ==
    { <<"N","e","w"," ","Y","o","r","k">>,
      <<"N","Y","C">>,
      <<"n","e","w"," ","y","o","r","k"," ","c","i","t","y">>,
      <<"S","a","n"," ","F","r","a","n","c","i","s","c","o">>,
      <<"S","F","O">>,
      <<"L","o","s"," ","A","n","g","e","l","e","s">>,
      <<"L","A">>,
      <<"B","o","s","t","o","n">>,
      <<"W","a","s","h","i","n","g","t","o","n"," ","D","C">>,
      <<"S","e","a","t","t","l","e">>,
      <<"C","H","I","C","A","G","O">>,
      <<"C","h","i","c","a","g","o">>,
      <<"D","e","n","v","e","r">>,
      <<"D","a","l","l","a","s">>,
      <<"A","t","l","a","n","t","a">>,
      <<"O","r","l","a","n","d","o">>,
      <<"M","i","a","m","i">>,
      <<"A","u","s","t","i","n">>,
      <<"P","h","o","e","n","i","x">>,
      <<"P","o","r","t","l","a","n","d">>,
      <<"H","o","u","s","t","o","n">>,
      <<"N","a","s","h","v","i","l","l","e">> }

DestinationTexts == CityTexts \cup SeqsUpTo(DestAlphabet, MaxDestLen)

Destinations ==
    { PyStr(s) : s \in DestinationTexts } \cup {PyAbsent, PyNone, PyInt(5), PyList(0)}

PurposeTexts ==
    { <<>>,
      <<"C","l","i","e","n","t"," ","v","i","s","i","t">>,
      <<" ">> }

Purposes ==
    { PyStr(s) : s \in PurposeTexts }
        \cup {PyAbsent, PyNone, PyInt(0), PyInt(5), PyList(0), PyList(2)}

BudgetTexts ==
    { <<>>,
      <<"a","b","c">>,
      <<"5","0","0">>,
      <<"1","5","0","0">>,
      <<"1","5","0","0",".","5">>,
      <<"2","0","0","0">>,
      <<"2","0","0","0",".","4">>,
      <<"2","0","0","0",".","5">>,
      <<"2","0","0","1">>,
      <<"2","5","0","0">>,
      <<" ","2","0","0","0"," ">>,
      <<"+","2","0","0","0">>,
      <<"-","5">>,
      <<"n","a","n">>,
      <<"N","a","N">>,
      <<"i","n","f">>,
      <<"-","i","n","f">>,
      <<"I","n","f","i","n","i","t","y">>,
      <<"$","2","0","0","0">>,
      <<"2",",","0","0","0">>,
      <<"1","5","0","0",".">>,
      <<".","5">>,
      <<".">> }

BudgetNumbers ==
    { BudgetLimit + d : d \in (0 - MaxBudgetDelta)..MaxBudgetDelta }
        \cup { BudgetApprovalLimit + d : d \in (0 - MaxBudgetDelta)..MaxBudgetDelta }
        \cup { 0 - 1, 0, 500, 2500, 1000000 }

Budgets ==
    { PyStr(s) : s \in BudgetTexts } \cup { PyInt(k) : k \in BudgetNumbers }
        \cup {PyAbsent, PyNone, PyList(0)}

Trips == [destination : Destinations, purpose : Purposes, budget : Budgets]

---------------------------------------------------------------------------
(* The policy check as a state machine: a request, then the call           *)

NoHistory == <<>>
NoSummary == [outcome |-> "none", exc |-> "", lines |-> <<>>]

\* Each component runs on its own: while one is exercised the variables of
\* the others rest at these values.
PolicyIdle ==
    /\ trip = [destination |-> PyAbsent, purpose |-> PyAbsent, budget |-> PyAbsent]
    /\ policy_result = NotCalled
PrefsIdle ==
    /\ travel_history = NoHistory
    /\ preferences = NoProfile
    /\ summary = NoSummary
PlanIdle ==
    /\ flights = <<>> /\ hotels = <<>> /\ cars = <<>>
    /\ preferred_airlines = <<>> /\ preferred_hotels = <<>>
    /\ preferred_cars = <<>>
    /\ pc = "idle"
    /\ flight_keys = <<>>
    /\ flights_sorted = <<>> /\ hotels_sorted = <<>> /\ cars_sorted = <<>>
    /\ reranked = [flights |-> <<>>, hotels |-> <<>>, cars |-> <<>>]
    /\ packages = [outcome |-> "none", exc |-> "", list |-> <<>>]
    /\ flight_table = <<>>
LoadIdle ==
    /\ history_file = [status |-> "missing", lines |-> <<>>]
    /\ loaded = [outcome |-> "none", trips |-> <<>>]
BookIdle ==
    /\ booking_file = [status |-> "missing", records |-> <<>>]
    /\ records_before = <<>>
    /\ save_result = [outcome |-> "none", code |-> ""]
CrewIdle ==
    /\ crew_call = [use_crewai |-> FALSE, use_yaml_config |-> FALSE,
                    failure |-> "none", output |-> [len |-> 0, actions |-> 0],
                    simple |-> "plan"]
    /\ crew_pc = "idle"
    /\ crew_result = [kind |-> "none"]

ToolIdle ==
    /\ trip_details = <<>>
    /\ tool_result = [outcome |-> "none", exc |-> "", report |-> <<>>]
SearchIdle ==
    /\ found_flights = <<>>
    /\ search_pc = "idle"
AppIdle ==
    /\ current_packages = <<>>
    /\ ui = <<>>
    /\ last_booking = <<>>
    /\ open_sessions = {}
    /\ search_outcomes = {}
ConfirmIdle ==
    /\ clock = 0
    /\ calls = <<>>
ExtraIdle == ToolIdle /\ SearchIdle /\ AppIdle /\ ConfirmIdle

InitPolicy ==
    /\ trip \in Trips
    /\ policy_result = NotCalled
    /\ PrefsIdle /\ PlanIdle /\ LoadIdle /\ BookIdle /\ CrewIdle /\ ExtraIdle

CheckPolicy ==
    /\ policy_result.outcome = "none"
    /\ policy_result' = check_policy_compliance(trip)
    /\ UNCHANGED <<trip, prefsVars, planVars, loadVars, bookVars, crewVars, extraVars>>

NextPolicy == CheckPolicy

SpecPolicy == InitPolicy /\ [][NextPolicy]_vars

---------------------------------------------------------------------------
(* Claims about check_policy_compliance, checked under SpecPolicy          *)

PolicyReturned == policy_result.outcome = "returned"
PolicyCalled == policy_result.outcome # "none"

HasViolation(id) ==
    \E i \in DOMAIN policy_result.violations : policy_result.violations[i].id = id
HasNote(id) ==
    \E i \in DOMAIN policy_result.notes : policy_result.notes[i].id = id
HasNoteWith(id, arg) ==
    \E i \in DOMAIN policy_result.notes : policy_result.notes[i] = Msg(id, arg)

\* A request of the data model: the destination and the purpose are text
\* or missing (absent, or null for the purpose).  The budget may be any
\* value.
TextOrAbsent(v) == v.t \in {"str", "absent"}
DataModelRequest ==
    /\ TextOrAbsent(trip.destination)
    /\ trip.purpose.t \in {"str", "absent", "none"}
PurposeMissing == trip.purpose.t \in {"absent", "none"} \/ trip.purpose = PyStr(<<>>)

\* C1: whenever check_policy_compliance returns, the status is 'Needs
\* Review' iff the violations list is non-empty and 'Approved' iff it is
\* empty.
C1_StatusIffViolations ==
    PolicyReturned =>
        /\ policy_result.status \in {StatusNeedsReview, StatusApproved}
        /\ policy_result.status = StatusNeedsReview <=> policy_result.violations # <<>>
        /\ policy_result.status = StatusApproved <=> policy_result.violations = <<>>

C1_Witness ==
    /\ PolicyReturned
    /\ Len(policy_result.violations) = 1
    /\ policy_result.status = StatusNeedsReview

\* C2: the violations list has at most two entries, each from the
\* business-purpose rule or the budget rule; the flight, hotel, car-rental
\* and preferred-vendor rules add their notes and nothing else, whatever
\* the destination or budget.
C2_OnlyPurposeAndBudgetViolate ==
    PolicyReturned =>
        /\ Len(policy_result.violations) <= 2
        /\ \A i \in DOMAIN policy_result.violations :
              policy_result.violations[i].id
                  \in {"no_business_justification", "budget_exceeds_limit"}
        /\ HasNote("flight_policy") /\ HasNote("car_policy")
        /\ HasNote("hotel_expensive_city") \/ HasNote("hotel_standard_city")
        /\ HasNote("preferred_airlines") /\ HasNote("preferred_hotels")
        /\ HasNote("preferred_car_rentals")

C2_Witness ==
    /\ PolicyReturned
    /\ Len(policy_result.violations) = 2
    /\ HasNoteWith("hotel_expensive_city", <<"2","5","0">>)

\* The budget of the request as a number of tenths, read off the request
\* itself: an integer, or one of the decimal texts.
BudgetTenths ==
    CASE trip.budget.t = "int" -> 10 * trip.budget.n
      [] trip.budget.t = "absent" -> 0
      [] trip.budget = PyStr(<<"5","0","0">>) -> 5000
      [] trip.budget = PyStr(<<"1","5","0","0">>) -> 15000
      [] trip.budget = PyStr(<<"1","5","0","0",".">>) -> 15000
      [] trip.budget = PyStr(<<"1","5","0","0",".","5">>) -> 15005
      [] trip.budget = PyStr(<<"2","0","0","0">>) -> 20000
      [] trip.budget = PyStr(<<" ","2","0","0","0"," ">>) -> 20000
      [] trip.budget = PyStr(<<"+","2","0","0","0">>) -> 20000
      [] trip.budget = PyStr(<<"2","0","0","0",".","4">>) -> 20004
      [] trip.budget = PyStr(<<"2","0","0","0",".","5">>) -> 20005
      [] trip.budget = PyStr(<<"2","0","0","1">>) -> 20010
      [] trip.budget = PyStr(<<"2","5","0","0">>) -> 25000
      [] trip.budget = PyStr(<<"-","5">>) -> 0 - 50
      [] trip.budget = PyStr(<<".","5">>) -> 5
      [] OTHER -> 0
BudgetIsFinite ==
    \/ trip.budget.t \in {"int", "absent"}
    \/ /\ trip.budget.t = "str"
       /\ trip.budget.s # <<>>
       /\ \A i \in DOMAIN trip.budget.s : trip.budget.s[i] \in
             {"0","1","2","3","4","5","6","7","8","9","."," ","+","-"}
       /\ trip.budget.s # <<".">>

\* C3: for a budget that parses to the number b, b > 2000 gives a budget
\* violation; 1500 < b <= 2000 gives the approval-required note and no
\* budget violation; b <= 1500 gives the 'within policy' note and no budget
\* violation.
C3_BudgetClasses ==
    (PolicyReturned /\ BudgetIsFinite) =>
        /\ BudgetTenths > 20000 =>
              /\ HasViolation("budget_exceeds_limit")
              /\ ~HasNote("budget_needs_approval") /\ ~HasNote("budget_within_policy")
        /\ (BudgetTenths > 15000 /\ BudgetTenths <= 20000) =>
              /\ HasNote("budget_needs_approval")
              /\ ~HasViolation("budget_exceeds_limit") /\ ~HasNote("budget_within_policy")
        /\ BudgetTenths <= 15000 =>
              /\ HasNote("budget_within_policy")
              /\ ~HasViolation("budget_exceeds_limit") /\ ~HasNote("budget_needs_approval")
        /\ ~HasNote("budget_unverified")

C3_Witness ==
    /\ PolicyReturned
    /\ trip.budget = PyInt(2000)
    /\ HasNoteWith("budget_needs_approval", <<"2",",","0","0","0">>)
    /\ ~HasViolation("budget_exceeds_limit")

\* C4: for a request of the data model whose purpose is empty or absent the
\* call returns with the violation 'Trip must have a business
\* justification' and status 'Needs Review', whatever the budget and
\* destination; for a non-empty purpose it returns with no purpose
\* violation and a note carrying the purpose text.
C4_PurposeRule ==
    (PolicyCalled /\ DataModelRequest) =>
        /\ PolicyReturned
        /\ PurposeMissing =>
              /\ HasViolation("no_business_justification")
              /\ policy_result.status = StatusNeedsReview
              /\ ~HasNote("business_purpose")
        /\ (trip.purpose.t = "str" /\ trip.purpose.s # <<>>) =>
              /\ ~HasViolation("no_business_justification")
              /\ HasNoteWith("business_purpose", trip.purpose.s)

C4_Witness ==
    /\ PolicyReturned
    /\ trip.purpose = PyStr(<<>>)
    /\ trip.budget = PyStr(<<"5","0","0">>)
    /\ HasViolation("no_business_justification")
    /\ policy_result.status = StatusNeedsReview

\* The budgets float() rejects: null, a list, and text that is no number.
UnparsableBudgets ==
    { PyNone, PyList(0), PyStr(<<>>), PyStr(<<"a","b","c">>),
      PyStr(<<"$","2","0","0","0">>), PyStr(<<"2",",","0","0","0">>),
      PyStr(<<".">>) }

\* C5: for a request of the data model whose budget cannot be parsed as a
\* number the call returns with the note 'Could not verify budget amount'
\* and no budget violation or other budget note, and the status is 'Needs
\* Review' exactly when the purpose is empty or absent.
C5_UnparsableBudget ==
    (PolicyCalled /\ DataModelRequest /\ trip.budget \in UnparsableBudgets) =>
        /\ PolicyReturned
        /\ HasNote("budget_unverified")
        /\ ~HasViolation("budget_exceeds_limit")
        /\ ~HasNote("budget_needs_approval") /\ ~HasNote("budget_within_policy")
        /\ policy_result.status = StatusNeedsReview <=> PurposeMissing

C5_Witness ==
    /\ PolicyReturned
    /\ trip.budget = PyStr(<<"a","b","c">>)
    /\ HasNote("budget_unverified")
    /\ policy_result.status = StatusApproved

\* C6: check_policy_compliance returns a well-formed result and never
\* raises, whatever the destination, purpose and budget are (absent, empty,
\* null or of an unexpected type).
C6_NeverRaises ==
    PolicyCalled =>
        /\ PolicyReturned
        /\ policy_result.status \in {StatusNeedsReview, StatusApproved}

\* The claim's city list and its substring test, stated on their own.
ClaimCities ==
    { <<"n","e","w"," ","y","o","r","k">>,
      <<"n","y","c">>,
      <<"s","a","n"," ","f","r","a","n","c","i","s","c","o">>,
      <<"s","f","o">>,
      <<"l","o","s"," ","a","n","g","e","l","e","s">>,
      <<"l","a">>,
      <<"b","o","s","t","o","n">>,
      <<"w","a","s","h","i","n","g","t","o","n">>,
      <<"d","c">>,
      <<"s","e","a","t","t","l","e">>,
      <<"c","h","i","c","a","g","o">> }
IsSubstring(sub, s) ==
    \E i \in 1..(Len(s) - Len(sub) + 1) : SubSeq(s, i, i + Len(sub) - 1) = sub
ClaimLower(s) ==
    [i \in DOMAIN s |->
        CASE s[i] = "A" -> "a" [] s[i] = "C" -> "c" [] s[i] = "D" -> "d"
          [] s[i] = "F" -> "f" [] s[i] = "G" -> "g" [] s[i] = "H" -> "h"
          [] s[i] = "I" -> "i" [] s[i] = "L" -> "l" [] s[i] = "N" -> "n"
          [] s[i] = "O" -> "o" [] s[i] = "S" -> "s" [] s[i] = "Y" -> "y"
          [] s[i] = "B" -> "b" [] s[i] = "W" -> "w" [] s[i] = "M" -> "m"
          [] s[i] = "P" -> "p" [] OTHER -> s[i]]
DestinationText == IF trip.destination.t = "str" THEN trip.destination.s ELSE <<>>

\* C7: the hotel note cites $250/night exactly when the lower-cased
\* destination contains one of the listed city names as a substring, and
\* $200/night for every other destination.
C7_HotelCapBySubstring ==
    PolicyReturned =>
        LET listed == \E city \in ClaimCities :
                          IsSubstring(city, ClaimLower(DestinationText))
        IN  /\ listed <=> HasNoteWith("hotel_expensive_city", <<"2","5","0">>)
            /\ ~listed <=> HasNoteWith("hotel_standard_city", <<"2","0","0">>)

C7_Witness ==
    /\ PolicyReturned
    /\ trip.destination = PyStr(<<"N","e","w"," ","Y","o","r","k">>)
    /\ trip.purpose = PyStr(<<"C","l","i","e","n","t"," ","v","i","s","i","t">>)
    /\ HasNoteWith("hotel_expensive_city", <<"2","5","0">>)
    /\ policy_result.status = StatusApproved

\* The cities the claim names as not expensive.
OtherCities ==
    { <<"D","e","n","v","e","r">>, <<"D","a","l","l","a","s">>, <<"A","t","l","a","n","t","a">>, <<"O","r","l","a","n","d","o">> }

\* C8: for a destination that is a city outside the expensive list
\* (Denver, Dallas, Atlanta, Orlando) the hotel note cites the standard
\* $200/night cap.
C8_OtherCitiesStandardCap ==
    (PolicyReturned /\ trip.destination.t = "str"
        /\ trip.destination.s \in OtherCities) =>
        HasNoteWith("hotel_standard_city", <<"2","0","0">>)

---------------------------------------------------------------------------
(* The travel histories analyze_preferences is applied to                  *)

MaxHistory == 5

TravelRecords ==
    { [Airline |-> PyStr(<<"D","e","l","t","a">>),
       Hotel |-> PyStr(<<"M","a","r","r","i","o","t","t"," ","M","a","r","q","u","i","s">>),
       RentalCar |-> PyStr(<<"E","n","t","e","r","p","r","i","s","e">>),
       FlightClass |-> PyStr(<<"E","c","o","n","o","m","y">>),
       TotalCost |-> PyStr(<<"1","2","5","0">>)],
      [Airline |-> PyStr(<<"U","n","i","t","e","d">>),
       Hotel |-> PyStr(<<"H","i","l","t","o","n"," ","G","a","r","d","e","n"," ","I","n","n">>),
       RentalCar |-> PyStr(<<"H","e","r","t","z">>),
       FlightClass |-> PyStr(<<"B","u","s","i","n","e","s","s">>),
       TotalCost |-> PyStr(<<"9","8","0",".","5">>)],
      [Airline |-> PyStr(<<"A","m","e","r","i","c","a","n">>),
       Hotel |-> PyStr(<<"H","y","a","t","t"," ","R","e","g","e","n","c","y">>),
       RentalCar |-> PyStr(<<"N","a","t","i","o","n","a","l">>),
       FlightClass |-> PyStr(<<"E","c","o","n","o","m","y">>),
       TotalCost |-> PyStr(<<"a","b","c">>)],
      [Airline |-> PyStr(<<"S","o","u","t","h","w","e","s","t">>),
       Hotel |-> PyStr(<<"W","e","s","t","i","n">>),
       RentalCar |-> PyStr(<<"A","v","i","s">>),
       FlightClass |-> PyStr(<<"F","i","r","s","t">>),
       TotalCost |-> PyStr(<<>>)],
      [Airline |-> PyStr(<<"D","e","l","t","a">>),
       Hotel |-> PyStr(<<" ","M","a","r","r","i","o","t","t"," ","D","o","w","n","t","o","w","n">>),
       RentalCar |-> PyStr(<<"N","o","n","e">>),
       FlightClass |-> PyAbsent,
       TotalCost |-> PyNone],
      [Airline |-> PyAbsent,
       Hotel |-> PyAbsent,
       RentalCar |-> PyAbsent,
       FlightClass |-> PyAbsent,
       TotalCost |-> PyAbsent],
      [Airline |-> PyStr(<<"U","n","i","t","e","d">>),
       Hotel |-> PyStr(<<" "," ">>),
       RentalCar |-> PyStr(<<"n","o","n","e">>),
       FlightClass |-> PyStr(<<"E","c","o","n","o","m","y">>),
       TotalCost |-> PyStr(<<"1","5","0","0">>)] }

\* format_preferences_summary: the lines of the summary, each the id of
\* its template and the values formatted into it.  preferences['total_trips']
\* is a subscript, so a profile without that key raises KeyError.
EntryLines(id, list) ==
    [i \in 1..Len(list) |-> Msg(id, <<list[i].name, list[i].count>>)]
SectionLines(title, id, list) ==
    IF list # <<>> THEN <<Msg(title, <<>>)>> \o EntryLines(id, list) ELSE <<>>

format_preferences_summary(p) ==
    IF ~p.has_total_trips
    THEN [outcome |-> "raised", exc |-> "KeyError", lines |-> <<>>]
    ELSE [outcome |-> "returned", exc |-> "",
          lines |-> << Msg("title", <<>>),
                       Msg("total_trips", p.total_trips),
                       Msg("average_trip_cost", p.average_trip_cost),
                       Msg("typical_flight_class", p.typical_flight_class) >>
                    \o SectionLines("airlines_title", "airline", p.preferred_airlines)
                    \o SectionLines("hotels_title", "hotel", p.preferred_hotels)
                    \o SectionLines("cars_title", "car", p.preferred_rental_cars)]

InitPrefs ==
    /\ PrefsIdle
    /\ PolicyIdle /\ PlanIdle /\ LoadIdle /\ BookIdle /\ CrewIdle /\ ExtraIdle

\* one more row in the history
AddRecord ==
    /\ Len(travel_history) < MaxHistory
    /\ \E r \in TravelRecords : travel_history' = Append(travel_history, r)
    /\ preferences' = NoProfile
    /\ summary' = NoSummary
    /\ UNCHANGED <<policyVars, planVars, loadVars, bookVars, crewVars, extraVars>>

AnalyzePreferences ==
    /\ preferences.outcome = "none"
    /\ preferences' = analyze_preferences(travel_history)
    /\ UNCHANGED <<travel_history, summary>>
    /\ UNCHANGED <<policyVars, planVars, loadVars, bookVars, crewVars, extraVars>>

\* get_traveler_preferences, after the history is loaded: the profile is
\* analysed and its summary formatted; a raise of analyze_preferences
\* passes through.
FormatSummary ==
    /\ preferences.outcome = "returned"
    /\ summary.outcome = "none"
    /\ summary' = format_preferences_summary(preferences)
    /\ UNCHANGED <<travel_history, preferences>>
    /\ UNCHANGED <<policyVars, planVars, loadVars, bookVars, crewVars, extraVars>>

NextPrefs == AddRecord \/ AnalyzePreferences \/ FormatSummary

SpecPrefs == InitPrefs /\ [][NextPrefs]_vars

---------------------------------------------------------------------------
(* Claims about analyze_preferences, checked under SpecPrefs               *)

PrefsReturned == preferences.outcome = "returned"
PrefsCalled == preferences.outcome # "none"

\* The names a history mentions, read off the records: the airline of each
\* record that has one, the brand of each hotel, the rental company of
\* each record that rented a car.
HasText(v) == v.t = "str" /\ v.s # <<>>
BrandOf(hotel) ==
    CASE hotel = <<"M","a","r","r","i","o","t","t"," ","M","a","r","q","u","i","s">> -> <<"M","a","r","r","i","o","t","t">>
      [] hotel = <<"H","i","l","t","o","n"," ","G","a","r","d","e","n"," ","I","n","n">> -> <<"H","i","l","t","o","n">>
      [] hotel = <<"H","y","a","t","t"," ","R","e","g","e","n","c","y">> -> <<"H","y","a","t","t">>
      [] hotel = <<"W","e","s","t","i","n">> -> <<"W","e","s","t","i","n">>
      [] hotel = <<" ","M","a","r","r","i","o","t","t"," ","D","o","w","n","t","o","w","n">> -> <<"M","a","r","r","i","o","t","t">>
      [] OTHER -> hotel
RECURSIVE NamesOf(_, _)
NamesOf(history, field) ==
    IF history = <<>> THEN <<>>
    ELSE LET r == Head(history)
             rest == NamesOf(Tail(history), field)
         IN  CASE field = "airline" ->
                    IF HasText(r.Airline) THEN <<r.Airline.s>> \o rest ELSE rest
               [] field = "hotel" ->
                    IF HasText(r.Hotel) THEN <<BrandOf(r.Hotel.s)>> \o rest ELSE rest
               [] OTHER ->
                    IF HasText(r.RentalCar)
                       /\ r.RentalCar.s \notin {<<"N","o","n","e">>, <<"n","o","n","e">>}
                    THEN <<r.RentalCar.s>> \o rest ELSE rest

CountIn(names, x) == Cardinality({i \in DOMAIN names : names[i] = x})
FirstIn(names, x) == CHOOSE i \in DOMAIN names :
                         names[i] = x /\ \A j \in 1..(i - 1) : names[j] # x
NameSet(names) == {names[i] : i \in DOMAIN names}
Min(a, b) == IF a < b THEN a ELSE b

\* list is the ranking the claim describes for the names mentioned
IsTopThree(list, names) ==
    /\ Len(list) = Min(3, Cardinality(NameSet(names)))
    /\ \A i \in DOMAIN list :
          /\ list[i].name \in NameSet(names)
          /\ list[i].count = CountIn(names, list[i].name)
    /\ \A i, j \in DOMAIN list : i < j =>
          /\ list[i].name # list[j].name
          /\ list[i].count >= list[j].count
          /\ list[i].count = list[j].count =>
                FirstIn(names, list[i].name) < FirstIn(names, list[j].name)
    /\ \A x \in NameSet(names) :
          (\A i \in DOMAIN list : list[i].name # x) =>
              \A i \in DOMAIN list : list[i].count >= CountIn(names, x)

\* C9: each of the three preferred lists of a returned profile has at most
\* 3 entries, is ordered by non-increasing count, lists the 3 most frequent
\* names with their counts, and orders names of equal count by their first
\* occurrence in the history.
C9_TopThreeLists ==
    PrefsReturned =>
        /\ Len(preferences.preferred_airlines) <= 3
        /\ Len(preferences.preferred_hotels) <= 3
        /\ Len(preferences.preferred_rental_cars) <= 3
        /\ IsTopThree(preferences.preferred_airlines, NamesOf(travel_history, "airline"))
        /\ IsTopThree(preferences.preferred_hotels, NamesOf(travel_history, "hotel"))
        /\ IsTopThree(preferences.preferred_rental_cars, NamesOf(travel_history, "car"))

\* a history of four airlines where the ranking has a tie and leaves one out
C9_Witness ==
    /\ PrefsReturned
    /\ Cardinality(NameSet(NamesOf(travel_history, "airline"))) = 4
    /\ Len(preferences.preferred_airlines) = 3
    /\ preferences.preferred_airlines[1].count = 2
    /\ preferences.preferred_airlines[2].count = 1
    /\ preferences.preferred_airlines[3].count = 1
    /\ Len(preferences.preferred_hotels) = 3

\* C10: analyze_preferences returns a profile and never raises, for any
\* sequence of travel records, including records with missing fields, a
\* hotel name that is blank or whitespace only, or an unparsable Total Cost.
C10_NeverRaises == PrefsCalled => PrefsReturned

\* C11: the profile of every history, empty or not, carries a trip count
\* equal to the number of records (for the empty history: empty lists,
\* class Economy, average 0, count 0), and formatting its summary does not
\* fail.
C11_ProfileComplete ==
    /\ PrefsReturned =>
          /\ preferences.has_total_trips
          /\ preferences.total_trips = Len(travel_history)
    /\ summary.outcome # "raised"

---------------------------------------------------------------------------
(* run_simple_mode: the ranking of flights, hotels and cars.               *)
(* Provider names are compared for equality only and are plain strings;    *)
(* a duration is text, parsed character by character.                      *)

RECURSIVE SplitOn(_, _)
\* s.split(c) for a one-character separator
SplitOn(s, c) ==
    LET at == FindFrom(s, <<c>>, 1)
    IN  IF at = 0 THEN <<s>>
        ELSE <<SubSeq(s, 1, at - 1)>> \o SplitOn(SubSeq(s, at + 1, Len(s)), c)

\* s.replace(c, '')
Without(s, c) == SelectSeq(s, LAMBDA x : x # c)

IntError == [ok |-> FALSE, n |-> 0]
ParseInt_Lenient(s) ==
    LET t == Strip(s)
    IN  IF t # <<>> /\ AllDigits(t) THEN [ok |-> TRUE, n |-> DigitsVal(t)]
        ELSE [ok |-> TRUE, n |-> 0]
\* int(text): surrounding whitespace, a sign, decimal digits; anything else
\* is a ValueError.
ParseInt(s) ==
    LET t == Strip(s)
        signed == t # <<>> /\ Head(t) \in {"+", "-"}
        digits == IF signed THEN Tail(t) ELSE t
    IN  IF digits # <<>> /\ AllDigits(digits)
        THEN [ok |-> TRUE,
              n |-> IF signed /\ Head(t) = "-" THEN 0 - DigitsVal(digits)
                    ELSE DigitsVal(digits)]
        ELSE IntError

DefaultDuration == <<"3","h"," ","0","m">>
DefaultMinutes == 180
DefaultStops == 1

\* total_minutes of flight_priority: hours before the first 'h', minutes
\* between the first and the second 'h' with every 'm' removed; the bare
\* except turns any failure (ValueError, IndexError, the AttributeError of
\* a duration that is not text) into 180.
TotalMinutes(f) ==
    LET d == GetDefault(f.duration, PyStr(DefaultDuration))
    IN  IF d.t # "str" THEN DefaultMinutes
        ELSE LET parts == SplitOn(d.s, "h")
                 hours == ParseInt(parts[1])
                 mins == IF Contains(d.s, <<"m">>)
                         THEN IF Len(parts) < 2 THEN IntError
                              ELSE ParseInt(Strip(Without(parts[2], "m")))
                         ELSE [ok |-> TRUE, n |-> 0]
             IN  IF hours.ok /\ mins.ok THEN hours.n * 60 + mins.n
                 ELSE DefaultMinutes

\* x in list
InList(x, list) == \E i \in DOMAIN list : list[i] = x

flight_priority_PreferredFirst(f, preferred) ==
    << IF InList(f.airline, preferred) THEN 0 ELSE 1,
       IF GetDefault(f.stops, PyInt(DefaultStops)) = PyInt(0) THEN 0 ELSE 1,
       TotalMinutes(f), f.price >>
flight_priority(f, preferred) ==
    << IF GetDefault(f.stops, PyInt(DefaultStops)) = PyInt(0) THEN 0 ELSE 1,
       IF InList(f.airline, preferred) THEN 0 ELSE 1,
       TotalMinutes(f), f.price >>

hotel_priority_PriceFirst(h, preferred) ==
    << h.total_price, IF InList(h.brand, preferred) THEN 0 ELSE 1 >>
hotel_priority(h, preferred) ==
    << IF InList(h.brand, preferred) THEN 0 ELSE 1, h.total_price >>

car_priority(c, preferred) ==
    << IF InList(c.company, preferred) THEN 0 ELSE 1, c.total_cost >>

\* a < b on tuples of integers of one length
KeyLess(a, b) ==
    \E i \in DOMAIN a :
        /\ a[i] < b[i]
        /\ \A j \in 1..(i - 1) : a[j] = b[j]

\* sorted(items, key=...) computes every key once and sorts stably: an item
\* lands behind the items, earlier in the input, whose key is not greater.
SortPos_BeforeEqual(order, keys, i) ==
    Cardinality({j \in DOMAIN order : KeyLess(keys[order[j]], keys[i])}) + 1
SortPos(order, keys, i) ==
    Cardinality({j \in DOMAIN order : ~KeyLess(keys[i], keys[order[j]])}) + 1

RECURSIVE SortedOrder(_, _)
\* the input positions of the first n items, in sorted order
SortedOrder(keys, n) ==
    IF n = 0 THEN <<>>
    ELSE LET order == SortedOrder(keys, n - 1)
             pos == SortPos(order, keys, n)
         IN  SubSeq(order, 1, pos - 1) \o <<n>> \o SubSeq(order, pos, Len(order))

SortedBy(items, keys) ==
    LET order == SortedOrder(keys, Len(items))
    IN  [i \in 1..Len(items) |-> items[order[i]]]

FlightKeys(fs, preferred) == [i \in 1..Len(fs) |-> flight_priority(fs[i], preferred)]
HotelKeys(hs, preferred) == [i \in 1..Len(hs) |-> hotel_priority(hs[i], preferred)]
CarKeys(cs, preferred) == [i \in 1..Len(cs) |-> car_priority(cs[i], preferred)]

\* what the plan shows of a flight: the stops column reads the number of
\* stops with the default 0
DisplayDefaultStops == 0
TableRows == 5
ShownDirect(f) == GetDefault(f.stops, PyInt(DisplayDefaultStops)) = PyInt(0)
StopsText(f) == IF ShownDirect(f) THEN "Direct" ELSE "stops"
FlightTable(fs, preferred) ==
    [i \in 1..(IF Len(fs) < TableRows THEN Len(fs) ELSE TableRows) |->
        [flight |-> fs[i],
         star |-> InList(fs[i].airline, preferred),
         direct |-> ShownDirect(fs[i]),
         stops_text |-> StopsText(fs[i])]]

\* the packages: one per rank while all three ranked lists last, at most 3
MaxPackages == 3
PyMin(S) == CHOOSE x \in S : \A y \in S : x <= y

PackageCount_NoCars(nf, nh, nc) == PyMin({MaxPackages, nf, nh})
PackageCount(nf, nh, nc) == PyMin({MaxPackages, nf, nh, nc})

PackageTotal_NoCar(flight, hotel, car) == flight.price + hotel.total_price
PackageTotal(flight, hotel, car) ==
    flight.price + hotel.total_price + car.total_cost

Matches(flight, hotel, car, airlines, brands, companies) ==
    (IF InList(flight.airline, airlines) THEN <<"preferred airline">> ELSE <<>>)
    \o (IF InList(hotel.brand, brands) THEN <<"preferred hotel">> ELSE <<>>)
    \o (IF InList(car.company, companies) THEN <<"preferred car rental">> ELSE <<>>)

\* the loop over range(min(3, ...)); a subscript past the end of a list is
\* an IndexError
AssembledPackages(fs, hs, cs, airlines, brands, companies) ==
    LET n == PackageCount(Len(fs), Len(hs), Len(cs))
    IN  IF \E i \in 1..n : i > Len(fs) \/ i > Len(hs) \/ i > Len(cs)
        THEN [outcome |-> "raised", exc |-> "IndexError", list |-> <<>>]
        ELSE [outcome |-> "returned", exc |-> "",
              list |-> [i \in 1..n |->
                          [flight |-> fs[i], hotel |-> hs[i], car |-> cs[i],
                           total |-> PackageTotal(fs[i], hs[i], cs[i]),
                           stops_text |-> StopsText(fs[i]),
                           matches |-> Matches(fs[i], hs[i], cs[i],
                                               airlines, brands, companies)]]]

---------------------------------------------------------------------------
(* The search results and profiles the ranking is exercised on             *)

MaxOptions == 3
MaxListed == 5
MaxShift == 1

FlightPool ==
    << [flight |-> "DL100", airline |-> "Delta", stops |-> PyInt(0),
        duration |-> PyStr(<<"2","h"," ","3","0","m">>), price |-> 450],
       [flight |-> "UA200", airline |-> "United", stops |-> PyInt(1),
        duration |-> PyStr(<<"4","h"," ","1","5","m">>), price |-> 300],
       [flight |-> "AA300", airline |-> "American", stops |-> PyInt(0),
        duration |-> PyStr(<<"2","h"," ","3","0","m">>), price |-> 450],
       [flight |-> "NK400", airline |-> "Spirit", stops |-> PyAbsent,
        duration |-> PyStr(<<"2","h">>), price |-> 200],
       [flight |-> "DL500", airline |-> "Delta", stops |-> PyInt(2),
        duration |-> PyAbsent, price |-> 350],
       [flight |-> "WN600", airline |-> "Southwest", stops |-> PyInt(0),
        duration |-> PyStr(<<"9","0","m">>), price |-> 280],
       [flight |-> "UA700", airline |-> "United", stops |-> PyInt(0),
        duration |-> PyNone, price |-> 280],
       [flight |-> "B6800", airline |-> "JetBlue", stops |-> PyInt(1),
        duration |-> PyStr(<<"a","b","c">>), price |-> 300],
       [flight |-> "AA900", airline |-> "American", stops |-> PyInt(1),
        duration |-> PyStr(<<"2",".","5","h">>), price |-> 520],
       [flight |-> "DL110", airline |-> "Delta", stops |-> PyInt(0),
        duration |-> PyStr(<<"0","h"," ","4","5","m">>), price |-> 610] >>

HotelPool ==
    << [name |-> "Marriott Marquis", brand |-> "Marriott", total_price |-> 900],
       [name |-> "Hilton Garden Inn", brand |-> "Hilton", total_price |-> 750],
       [name |-> "Hyatt Regency", brand |-> "Hyatt", total_price |-> 900],
       [name |-> "Courtyard Downtown", brand |-> "Marriott", total_price |-> 600],
       [name |-> "Holiday Inn Express", brand |-> "IHG", total_price |-> 750] >>

CarPool ==
    << [company |-> "Enterprise", total_cost |-> 200],
       [company |-> "Hertz", total_cost |-> 250],
       [company |-> "Budget", total_cost |-> 150],
       [company |-> "Avis", total_cost |-> 200],
       [company |-> "National", total_cost |-> 300] >>

RankProfiles ==
    { [airlines |-> <<>>, hotels |-> <<>>, cars |-> <<>>],
      [airlines |-> <<"Delta">>, hotels |-> <<"Marriott">>,
       cars |-> <<"Enterprise">>],
      [airlines |-> <<"United", "Delta", "American">>,
       hotels |-> <<"Hilton", "Marriott", "Hyatt">>,
       cars |-> <<"Hertz", "Avis", "National">>],
      [airlines |-> <<"Southwest", "United">>, hotels |-> <<"IHG", "Hilton">>,
       cars |-> <<"Budget", "Avis">>] }

Range(s) == {s[i] : i \in DOMAIN s}

\* the lists of at most n different options of a pool, in any order
OptionLists(pool, n) ==
    {s \in SeqsUpTo(Range(pool), n) :
        \A i, j \in DOMAIN s : i # j => s[i] # s[j]}

\* the first options of a pool read from a shifted start
Shifted(pool, k) == SubSeq(pool, k + 1, Len(pool)) \o SubSeq(pool, 1, k)
ListedOptions(pool) ==
    {SubSeq(Shifted(pool, k), 1, n) :
        k \in 0..MaxShift, n \in 0..PyMin({MaxListed, Len(pool)})}

NoPackages == [outcome |-> "none", exc |-> "", list |-> <<>>]
NoReranked == [flights |-> <<>>, hotels |-> <<>>, cars |-> <<>>]

\* one kind of option in every order, or all three kinds for the packages
InitPlan ==
    /\ \E p \in RankProfiles :
          /\ preferred_airlines = p.airlines
          /\ preferred_hotels = p.hotels
          /\ preferred_cars = p.cars
    /\ \/ /\ flights \in OptionLists(FlightPool, MaxOptions)
          /\ hotels = <<>> /\ cars = <<>>
       \/ /\ hotels \in OptionLists(HotelPool, MaxOptions)
          /\ flights = <<>> /\ cars = <<>>
       \/ /\ cars \in OptionLists(CarPool, MaxOptions)
          /\ flights = <<>> /\ hotels = <<>>
       \/ /\ flights \in ListedOptions(FlightPool)
          /\ hotels \in ListedOptions(HotelPool)
          /\ cars \in ListedOptions(CarPool)
    /\ pc = "start"
    /\ flight_keys = <<>>
    /\ flights_sorted = <<>> /\ hotels_sorted = <<>> /\ cars_sorted = <<>>
    /\ reranked = NoReranked
    /\ packages = NoPackages
    /\ flight_table = <<>>
    /\ PolicyIdle /\ PrefsIdle /\ LoadIdle /\ BookIdle /\ CrewIdle /\ ExtraIdle

planInputs == <<flights, hotels, cars,
                preferred_airlines, preferred_hotels, preferred_cars>>
otherVars == <<policyVars, prefsVars, loadVars, bookVars, crewVars, extraVars>>

\* flights_sorted = sorted(flights, key=flight_priority), then the table of
\* the top 5 flights
RankFlights ==
    /\ pc = "start"
    /\ flight_keys' = FlightKeys(flights, preferred_airlines)
    /\ flights_sorted' = SortedBy(flights, FlightKeys(flights, preferred_airlines))
    /\ flight_table' = FlightTable(SortedBy(flights, FlightKeys(flights, preferred_airlines)),
                                  preferred_airlines)
    /\ pc' = "flights"
    /\ UNCHANGED <<planInputs, hotels_sorted, cars_sorted, reranked, packages>>
    /\ UNCHANGED otherVars

\* hotels_sorted = sorted(hotels, key=hotel_priority)
RankHotels ==
    /\ pc = "flights"
    /\ hotels_sorted' = SortedBy(hotels, HotelKeys(hotels, preferred_hotels))
    /\ pc' = "hotels"
    /\ UNCHANGED <<planInputs, flight_keys, flight_table, flights_sorted, cars_sorted,
                   reranked, packages>>
    /\ UNCHANGED otherVars

\* cars_sorted = sorted(cars, key=car_priority)
RankCars ==
    /\ pc = "hotels"
    /\ cars_sorted' = SortedBy(cars, CarKeys(cars, preferred_cars))
    /\ pc' = "cars"
    /\ UNCHANGED <<planInputs, flight_keys, flight_table, flights_sorted, hotels_sorted,
                   reranked, packages>>
    /\ UNCHANGED otherVars

\* the package table and the package details
AssemblePackages ==
    /\ pc = "cars"
    /\ packages' = AssembledPackages(flights_sorted, hotels_sorted, cars_sorted,
                                     preferred_airlines, preferred_hotels,
                                     preferred_cars)
    /\ pc' = "packaged"
    /\ UNCHANGED <<planInputs, flight_keys, flight_table, flights_sorted, hotels_sorted,
                   cars_sorted, reranked>>
    /\ UNCHANGED otherVars

\* the three ranked lists ranked once more with the same profile
ReRank ==
    /\ pc = "cars"
    /\ reranked' =
         [flights |-> SortedBy(flights_sorted,
                               FlightKeys(flights_sorted, preferred_airlines)),
          hotels |-> SortedBy(hotels_sorted,
                              HotelKeys(hotels_sorted, preferred_hotels)),
          cars |-> SortedBy(cars_sorted, CarKeys(cars_sorted, preferred_cars))]
    /\ pc' = "reranked"
    /\ UNCHANGED <<planInputs, flight_keys, flight_table, flights_sorted, hotels_sorted,
                   cars_sorted, packages>>
    /\ UNCHANGED otherVars

NextPlan == RankFlights \/ RankHotels \/ RankCars \/ AssemblePackages \/ ReRank

SpecPlan == InitPlan /\ [][NextPlan]_vars

---------------------------------------------------------------------------
(* Claims about the ranking and the packages, checked under SpecPlan       *)

FlightsRanked == pc \in {"flights", "hotels", "cars", "packaged", "reranked"}
HotelsRanked == pc \in {"hotels", "cars", "packaged", "reranked"}
CarsRanked == pc \in {"cars", "packaged", "reranked"}

\* What the claims call a flight's key, read off the flight: it is direct
\* when it has zero stops, preferred when its airline is in the profile's
\* list, and its duration in minutes is what Python makes of its text.
IsDirectFlight(f) == f.stops = PyInt(0)
IsPreferredFlight(f) == f.airline \in Range(preferred_airlines)
IsPreferredHotel(h) == h.brand \in Range(preferred_hotels)
IsPreferredCar(c) == c.company \in Range(preferred_cars)
DurationMinutes(f) ==
    CASE f.duration = PyStr(<<"2","h"," ","3","0","m">>) -> 150
      [] f.duration = PyStr(<<"4","h"," ","1","5","m">>) -> 255
      [] f.duration = PyStr(<<"2","h">>) -> 120
      [] f.duration = PyStr(<<"0","h"," ","4","5","m">>) -> 45
      [] OTHER -> 180
ClaimKey(f) ==
    << IF IsDirectFlight(f) THEN 0 ELSE 1, IF IsPreferredFlight(f) THEN 0 ELSE 1,
       DurationMinutes(f), f.price >>
KeyLeq(a, b) ==
    \/ a[1] < b[1]
    \/ a[1] = b[1] /\ a[2] < b[2]
    \/ a[1] = b[1] /\ a[2] = b[2] /\ a[3] < b[3]
    \/ a[1] = b[1] /\ a[2] = b[2] /\ a[3] = b[3] /\ a[4] <= b[4]

PreferredThenPrice(list, IsPreferred(_), Amount(_)) ==
    \A i, j \in DOMAIN list : i < j =>
        /\ IsPreferred(list[j]) => IsPreferred(list[i])
        /\ (IsPreferred(list[i]) <=> IsPreferred(list[j])) =>
              Amount(list[i]) <= Amount(list[j])
TotalPrice(h) == h.total_price
TotalCost(c) == c.total_cost

\* C13: the ranked hotels and the ranked cars each have every option of a
\* preferred provider before every option of a non-preferred one, and inside
\* each group ascending total price / total cost.
C13_PreferredThenPrice ==
    /\ HotelsRanked => PreferredThenPrice(hotels_sorted, IsPreferredHotel, TotalPrice)
    /\ CarsRanked => PreferredThenPrice(cars_sorted, IsPreferredCar, TotalCost)

\* a dearer preferred hotel ahead of a cheaper one, and the same for cars
C13_Witness ==
    /\ CarsRanked
    /\ \E i, j \in DOMAIN hotels_sorted :
          /\ i < j
          /\ IsPreferredHotel(hotels_sorted[i]) /\ ~IsPreferredHotel(hotels_sorted[j])
          /\ hotels_sorted[i].total_price > hotels_sorted[j].total_price
    /\ \E i, j \in DOMAIN cars_sorted :
          /\ i < j
          /\ IsPreferredCar(cars_sorted[i]) /\ ~IsPreferredCar(cars_sorted[j])
          /\ cars_sorted[i].total_cost > cars_sorted[j].total_cost
    /\ hotels_sorted # hotels
    /\ cars_sorted # cars

PosIn(list, x) == CHOOSE i \in DOMAIN list : list[i] = x
HotelKey(h) == << IF IsPreferredHotel(h) THEN 0 ELSE 1, h.total_price >>
CarKey(c) == << IF IsPreferredCar(c) THEN 0 ELSE 1, c.total_cost >>

\* out holds the options of in, each once, and options of one key are in
\* the order they have in in
StablePermutation(in, out, Key(_)) ==
    /\ Len(out) = Len(in)
    /\ Range(out) = Range(in)
    /\ \A i, j \in DOMAIN in :
          (i < j /\ Key(in[i]) = Key(in[j])) => PosIn(out, in[i]) < PosIn(out, in[j])

\* C14: each ranked list is a permutation of its input in which options of
\* identical keys keep their input order, and ranking the ranked lists
\* again with the same profile returns them unchanged.
C14_StableIdempotent ==
    /\ FlightsRanked => StablePermutation(flights, flights_sorted, ClaimKey)
    /\ HotelsRanked => StablePermutation(hotels, hotels_sorted, HotelKey)
    /\ CarsRanked => StablePermutation(cars, cars_sorted, CarKey)
    /\ pc = "reranked" =>
          /\ reranked.flights = flights_sorted
          /\ reranked.hotels = hotels_sorted
          /\ reranked.cars = cars_sorted

\* three flights, two of them of one key, that the ranking reorders
C14_Witness ==
    /\ pc = "reranked"
    /\ Len(flights) = 3
    /\ flights_sorted # flights
    /\ \E i, j \in DOMAIN flights :
          i < j /\ ClaimKey(flights[i]) = ClaimKey(flights[j])
    /\ reranked.flights = flights_sorted

PackagesDone == pc = "packaged"

\* C15: the assembly yields exactly min(3, flights, hotels, cars) packages
\* and no error; with an empty list it yields none.
C15_PackageCount ==
    PackagesDone =>
        /\ packages.outcome = "returned"
        /\ Len(packages.list) =
              Min(3, Min(Len(flights), Min(Len(hotels), Len(cars))))
        /\ (flights = <<>> \/ hotels = <<>> \/ cars = <<>>) => packages.list = <<>>

\* 2 flights, 5 hotels and 5 cars give 2 packages
C15_Witness ==
    /\ PackagesDone
    /\ Len(flights) = 2 /\ Len(hotels) = 5 /\ Len(cars) = 5
    /\ Len(packages.list) = 2

\* 5 of each give 3 packages
C15_Capped ==
    /\ PackagesDone
    /\ Len(flights) = 5 /\ Len(hotels) = 5 /\ Len(cars) = 5
    /\ Len(packages.list) = 3

HasTag(package, tag) == tag \in Range(package.matches)

\* C16: package i is the i-th ranked flight, hotel and car, its total is the
\* sum of the three amounts, and it carries each preferred tag exactly when
\* the provider is in the profile's list, whatever its rank.
C16_PackageContents ==
    (PackagesDone /\ packages.outcome = "returned") =>
        \A i \in DOMAIN packages.list :
            LET p == packages.list[i]
            IN  /\ p.flight = flights_sorted[i]
                /\ p.hotel = hotels_sorted[i]
                /\ p.car = cars_sorted[i]
                /\ p.total = flights_sorted[i].price + hotels_sorted[i].total_price
                               + cars_sorted[i].total_cost
                /\ HasTag(p, "preferred airline") <=> IsPreferredFlight(p.flight)
                /\ HasTag(p, "preferred hotel") <=> IsPreferredHotel(p.hotel)
                /\ HasTag(p, "preferred car rental") <=> IsPreferredCar(p.car)
                /\ Range(p.matches) \subseteq
                      {"preferred airline", "preferred hotel", "preferred car rental"}

\* three packages, the third with a preferred airline and the first without
C16_Witness ==
    /\ PackagesDone
    /\ Len(packages.list) = 3
    /\ ~HasTag(packages.list[1], "preferred airline")
    /\ HasTag(packages.list[3], "preferred airline")
    /\ HasTag(packages.list[1], "preferred hotel")
    /\ packages.list[1].total > packages.list[1].flight.price
                                  + packages.list[1].hotel.total_price

\* the durations of the form 'Xh Ym' and the ones that cannot be parsed
WellFormedDurations ==
    { PyStr(<<"2","h"," ","3","0","m">>), PyStr(<<"4","h"," ","1","5","m">>), PyStr(<<"0","h"," ","4","5","m">>) }
UnparsableDurations ==
    { PyAbsent, PyNone, PyStr(<<"9","0","m">>), PyStr(<<"a","b","c">>), PyStr(<<"2",".","5","h">>) }

\* C17: a flight whose duration is missing or cannot be parsed is ranked
\* with 180 minutes, and a duration 'Xh Ym' with 60 * X + Y minutes.
C17_DurationKey ==
    FlightsRanked =>
        \A i \in DOMAIN flights :
            /\ flights[i].duration \in UnparsableDurations => flight_keys[i][3] = 180
            /\ flights[i].duration = PyStr(<<"2","h"," ","3","0","m">>) => flight_keys[i][3] = 60 * 2 + 30
            /\ flights[i].duration = PyStr(<<"4","h"," ","1","5","m">>) => flight_keys[i][3] = 60 * 4 + 15
            /\ flights[i].duration = PyStr(<<"0","h"," ","4","5","m">>) => flight_keys[i][3] = 60 * 0 + 45

\* one flight of each kind: '90m', a word, and '0h 45m'
C17_Witness ==
    /\ FlightsRanked
    /\ \E i, j, k \in DOMAIN flights :
          /\ flights[i].duration = PyStr(<<"9","0","m">>) /\ flight_keys[i][3] = 180
          /\ flights[j].duration = PyStr(<<"a","b","c">>) /\ flight_keys[j][3] = 180
          /\ flights[k].duration = PyStr(<<"0","h"," ","4","5","m">>) /\ flight_keys[k][3] = 45

---------------------------------------------------------------------------
(* load_travel_history: the history file and what the loader makes of it.  *)
(* The file is missing, unreadable, or a header followed by lines; a line  *)
(* is a row, a blank line (csv.DictReader skips it) or bytes that cannot   *)
(* be decoded or parsed (UnicodeDecodeError, csv.Error).                   *)

MaxLines == 3

SampleTrip ==
    [TripCode |-> PyStr(<<"T","R","P","0","0","1">>),
     Origin |-> PyStr(<<"C","h","i","c","a","g","o">>),
     Destination |-> PyStr(<<"N","e","w"," ","Y","o","r","k">>),
     Airline |-> PyStr(<<"D","e","l","t","a">>),
     Hotel |-> PyStr(<<"M","a","r","r","i","o","t","t"," ","M","a","r","q","u","i","s">>),
     FlightClass |-> PyStr(<<"E","c","o","n","o","m","y">>),
     RentalCar |-> PyStr(<<"E","n","t","e","r","p","r","i","s","e">>),
     TotalCost |-> PyStr(<<"1","2","5","0">>)]

HistoryRows ==
    { [TripCode |-> PyStr(<<"T","R","P","0","0","2">>),
       Origin |-> PyStr(<<"C","h","i","c","a","g","o">>),
       Destination |-> PyStr(<<"B","o","s","t","o","n">>),
       Airline |-> PyStr(<<"U","n","i","t","e","d">>),
       Hotel |-> PyStr(<<"H","i","l","t","o","n"," ","G","a","r","d","e","n"," ","I","n","n">>),
       FlightClass |-> PyStr(<<"B","u","s","i","n","e","s","s">>),
       RentalCar |-> PyStr(<<"H","e","r","t","z">>),
       TotalCost |-> PyStr(<<"9","8","0",".","5">>)],
      [TripCode |-> PyStr(<<"T","R","P","0","0","3">>),
       Origin |-> PyStr(<<"D","a","l","l","a","s">>),
       Destination |-> PyStr(<<"S","e","a","t","t","l","e">>),
       Airline |-> PyStr(<<"D","e","l","t","a">>),
       Hotel |-> PyStr(<<"W","e","s","t","i","n">>),
       FlightClass |-> PyNone,
       RentalCar |-> PyStr(<<"N","o","n","e">>),
       TotalCost |-> PyStr(<<>>)],
      [TripCode |-> PyStr(<<"T","R","P","0","0","1">>),
       Origin |-> PyStr(<<"C","h","i","c","a","g","o">>),
       Destination |-> PyStr(<<"N","e","w"," ","Y","o","r","k">>),
       Airline |-> PyStr(<<"D","e","l","t","a">>),
       Hotel |-> PyStr(<<"M","a","r","r","i","o","t","t"," ","M","a","r","q","u","i","s">>),
       FlightClass |-> PyStr(<<"E","c","o","n","o","m","y">>),
       RentalCar |-> PyStr(<<"E","n","t","e","r","p","r","i","s","e">>),
       TotalCost |-> PyStr(<<"1","2","5","0">>)] }

Row(r) == [kind |-> "row", row |-> r]
BlankLine == [kind |-> "blank", row |-> SampleTrip]
BadLine == [kind |-> "bad", row |-> SampleTrip]
HistoryLines == {Row(r) : r \in HistoryRows} \cup {BlankLine, BadLine}

NotLoaded == [outcome |-> "none", trips |-> <<>>]
Loaded(trips) == [outcome |-> "returned", trips |-> trips]

RECURSIVE ReadRows(_, _)
\* for row in reader: trips.append(row); the result is raised |-> TRUE when
\* the reader fails on a line
ReadRows(lines, trips) ==
    IF lines = <<>> THEN [raised |-> FALSE, trips |-> trips]
    ELSE CASE Head(lines).kind = "bad" -> [raised |-> TRUE, trips |-> trips]
           [] Head(lines).kind = "blank" -> ReadRows(Tail(lines), trips)
           [] OTHER -> ReadRows(Tail(lines), Append(trips, Head(lines).row))

load_travel_history_Partial(file) ==
    IF file.status # "ok" THEN Loaded(<<SampleTrip>>)
    ELSE Loaded(ReadRows(file.lines, <<>>).trips)
\* any exception of open or of the reader ends in the except branch, which
\* returns the sample record alone
load_travel_history(file) ==
    IF file.status # "ok" THEN Loaded(<<SampleTrip>>)
    ELSE LET read == ReadRows(file.lines, <<>>)
         IN  IF read.raised THEN Loaded(<<SampleTrip>>) ELSE Loaded(read.trips)

InitLoad ==
    /\ history_file \in {[status |-> st, lines |-> <<>>] :
                            st \in {"missing", "unreadable", "ok"}}
    /\ loaded = NotLoaded
    /\ PolicyIdle /\ PrefsIdle /\ PlanIdle /\ BookIdle /\ CrewIdle /\ ExtraIdle

\* one more line in a file that exists
WriteLine ==
    /\ history_file.status # "missing"
    /\ Len(history_file.lines) < MaxLines
    /\ \E l \in HistoryLines :
          history_file' = [history_file EXCEPT !.lines = Append(@, l)]
    /\ loaded' = NotLoaded
    /\ UNCHANGED <<policyVars, prefsVars, planVars, bookVars, crewVars, extraVars>>

LoadTravelHistory ==
    /\ loaded.outcome = "none"
    /\ loaded' = load_travel_history(history_file)
    /\ UNCHANGED history_file
    /\ UNCHANGED <<policyVars, prefsVars, planVars, bookVars, crewVars, extraVars>>

NextLoad == WriteLine \/ LoadTravelHistory

SpecLoad == InitLoad /\ [][NextLoad]_vars

---------------------------------------------------------------------------
(* Claims about load_travel_history, checked under SpecLoad                *)

LoadCalled == loaded.outcome # "none"
FileCannotBeRead ==
    \/ history_file.status \in {"missing", "unreadable"}
    \/ \E i \in DOMAIN history_file.lines : history_file.lines[i].kind = "bad"
RECURSIVE RowsInOrder(_)
RowsInOrder(lines) ==
    IF lines = <<>> THEN <<>>
    ELSE LET before == RowsInOrder(SubSeq(lines, 1, Len(lines) - 1))
             last == lines[Len(lines)]
         IN  IF last.kind = "row" THEN before \o <<last.row>> ELSE before
IsFallback(trips) ==
    /\ Len(trips) = 1
    /\ trips[1].TripCode = PyStr(<<"T","R","P","0","0","1">>)
    /\ trips[1].Origin = PyStr(<<"C","h","i","c","a","g","o">>)
    /\ trips[1].Destination = PyStr(<<"N","e","w"," ","Y","o","r","k">>)
    /\ trips[1].Airline = PyStr(<<"D","e","l","t","a">>)

\* C18: load_travel_history never raises; for a file that is missing or
\* cannot be read or parsed it returns the one built-in record (TRP001,
\* Chicago to New York, Delta), otherwise the file's rows in file order.
C18_LoadOrFallback ==
    LoadCalled =>
        /\ loaded.outcome = "returned"
        /\ FileCannotBeRead => IsFallback(loaded.trips)
        /\ ~FileCannotBeRead => loaded.trips = RowsInOrder(history_file.lines)

\* two rows and then a line that cannot be parsed: the rows are dropped
C18_Witness ==
    /\ LoadCalled
    /\ history_file.status = "ok"
    /\ Len(history_file.lines) = 3
    /\ history_file.lines[1].kind = "row"
    /\ history_file.lines[2].kind = "row"
    /\ history_file.lines[3].kind = "bad"
    /\ IsFallback(loaded.trips)

\* three different rows come back in file order
C18_RowsKept ==
    /\ LoadCalled
    /\ history_file.status = "ok"
    /\ Len(loaded.trips) = 3
    /\ loaded.trips[1] # loaded.trips[2]
    /\ \A i \in 1..3 : loaded.trips[i] = history_file.lines[i].row

---------------------------------------------------------------------------
(* save_booking_record: data/booking_history.json.                         *)
(* The file is missing, a JSON list of records, or text that is not JSON   *)
(* (what a dump that stopped half way leaves behind).  A record is its     *)
(* confirmation code.                                                      *)

MaxBookings == 3

BookingCodes == {"CONF20240315093000", "CONF20240315093001", "CONF20240316120000"}

\* how the write of a call ends: it succeeds, open(..., 'w') fails and the
\* file is untouched, or json.dump fails after open(..., 'w') has truncated
\* the file (details that are not JSON serialisable, an I/O error)
WriteOutcomes == {"ok", "open_fails", "dump_fails"}

MissingFile == [status |-> "missing", records |-> <<>>]
JsonFile(records) == [status |-> "ok", records |-> records]
BrokenFile == [status |-> "broken", records |-> <<>>]

\* bookings = json.load(f), and [] when the file cannot be opened or parsed
LoadBookings(file) == IF file.status = "ok" THEN file.records ELSE <<>>

save_booking_record(file, confirmation_code, write) ==
    LET bookings == Append(LoadBookings(file), confirmation_code)
    IN  CASE write = "ok" ->
               [file |-> JsonFile(bookings), outcome |-> "saved"]
          [] write = "open_fails" ->
               [file |-> file, outcome |-> "not saved"]
          [] OTHER ->
               [file |-> BrokenFile, outcome |-> "not saved"]

InitBook ==
    /\ booking_file = MissingFile
    /\ records_before = <<>>
    /\ save_result = [outcome |-> "none", code |-> ""]
    /\ PolicyIdle /\ PrefsIdle /\ PlanIdle /\ LoadIdle /\ CrewIdle /\ ExtraIdle

\* one call; records_before keeps what the file held when the call began
SaveBookingRecord ==
    /\ Len(booking_file.records) < MaxBookings
    /\ \E code \in BookingCodes, write \in WriteOutcomes :
          LET r == save_booking_record(booking_file, code, write)
          IN  /\ booking_file' = r.file
              /\ save_result' = [outcome |-> r.outcome, code |-> code]
    /\ records_before' = booking_file.records
    /\ UNCHANGED <<policyVars, prefsVars, planVars, loadVars, crewVars, extraVars>>

NextBook == SaveBookingRecord

SpecBook == InitBook /\ [][NextBook]_vars

---------------------------------------------------------------------------
(* Claims about the booking history, checked under SpecBook                *)

IsPrefix(a, b) == Len(a) <= Len(b) /\ SubSeq(b, 1, Len(a)) = a

\* C19: after a call of save_booking_record every record the file held
\* before the call is still there, in the same order, and a successful call
\* has added exactly one record at the end.
C19_AppendOnly ==
    save_result.outcome # "none" =>
        /\ IsPrefix(records_before, booking_file.records)
        /\ save_result.outcome = "saved" =>
              booking_file.records = Append(records_before, save_result.code)

---------------------------------------------------------------------------
(* run_travel_crew: CrewAI mode and the fallback to simple mode.           *)
(* A call is its two flags, where the CrewAI run fails (never, at the      *)
(* import of the crew module, while the crew is set up, or in kickoff),    *)
(* the crew's output (its length and its number of "Action:" marks) and    *)
(* whether run_simple_mode returns a plan or raises.                       *)

MaxActions == 4
YamlShortOutput == 1000
AiShortOutput == 500
AiManyActions == 3
ActionMarkLen == 7

OutputLengths == {0, AiShortOutput - 1, AiShortOutput, YamlShortOutput - 1,
                  YamlShortOutput, 2 * YamlShortOutput}
CrewOutputs ==
    {o \in [len : OutputLengths, actions : 0..MaxActions] :
        o.actions * ActionMarkLen <= o.len}
CrewFailures == {"none", "import", "setup", "kickoff"}

CrewCalls ==
    [use_crewai : BOOLEAN, use_yaml_config : BOOLEAN, failure : CrewFailures,
     output : CrewOutputs, simple : {"plan", "raises"}]

NoResult == [kind |-> "none"]
CrewOutput == [kind |-> "crew_output"]
ErrorText == [kind |-> "error_text"]
SimplePlan == [kind |-> "simple_plan"]
SimpleRaised == [kind |-> "raised"]

\* run_simple_mode(trip_params): the plan, or the exception of a tool
run_simple_mode(call) == IF call.simple = "plan" THEN SimplePlan ELSE SimpleRaised

\* a call made inside a try whose except returns the error text
ErrorTextIfRaised(result) == IF result = SimpleRaised THEN ErrorText ELSE result

\* run_travel_crew_yaml: all of its work is inside its own try, whose
\* except returns "Error during travel planning: ..."
run_travel_crew_yaml(call) ==
    IF call.failure \in {"setup", "kickoff"} THEN ErrorText
    ELSE IF call.output.actions > 0 /\ call.output.len < YamlShortOutput
         THEN ErrorTextIfRaised(run_simple_mode(call))
         ELSE CrewOutput

\* run_travel_crew_ai: the agents and the crew are made before the try, so a
\* failure there leaves the function; kickoff is inside the try
run_travel_crew_ai(call) ==
    IF call.failure = "setup" THEN SimpleRaised
    ELSE IF call.failure = "kickoff" THEN ErrorText
    ELSE IF call.output.len < AiShortOutput \/ call.output.actions > AiManyActions
         THEN ErrorTextIfRaised(run_simple_mode(call))
         ELSE CrewOutput

InitCrew ==
    /\ crew_call \in CrewCalls
    /\ crew_pc = "start"
    /\ crew_result = NoResult
    /\ PolicyIdle /\ PrefsIdle /\ PlanIdle /\ LoadIdle /\ BookIdle /\ ExtraIdle

crewOthers == <<policyVars, prefsVars, planVars, loadVars, bookVars, extraVars>>

\* if use_crewai: ... the import of the crew module; a failed import is
\* caught by run_travel_crew's except
EnterCrew ==
    /\ crew_pc = "start"
    /\ crew_pc' = IF ~crew_call.use_crewai THEN "simple"
                  ELSE IF crew_call.failure = "import" THEN "except"
                  ELSE IF crew_call.use_yaml_config THEN "yaml" ELSE "ai"
    /\ UNCHANGED <<crew_call, crew_result>>
    /\ UNCHANGED crewOthers

\* return run_travel_crew_yaml(trip_params, mode)
RunCrewYaml ==
    /\ crew_pc = "yaml"
    /\ crew_result' = run_travel_crew_yaml(crew_call)
    /\ crew_pc' = "done"
    /\ UNCHANGED crew_call
    /\ UNCHANGED crewOthers

\* return run_travel_crew_ai(trip_params, mode); what it raises is caught
RunCrewAi ==
    /\ crew_pc = "ai"
    /\ LET r == run_travel_crew_ai(crew_call)
       IN  IF r = SimpleRaised
           THEN crew_pc' = "except" /\ crew_result' = crew_result
           ELSE crew_pc' = "done" /\ crew_result' = r
    /\ UNCHANGED crew_call
    /\ UNCHANGED crewOthers

\* except Exception: print the message, use_crewai = False
FallBackToSimple ==
    /\ crew_pc = "except"
    /\ crew_pc' = "simple"
    /\ UNCHANGED <<crew_call, crew_result>>
    /\ UNCHANGED crewOthers

\* if not use_crewai: return run_simple_mode(trip_params)
RunSimpleMode ==
    /\ crew_pc = "simple"
    /\ crew_result' = run_simple_mode(crew_call)
    /\ crew_pc' = "done"
    /\ UNCHANGED crew_call
    /\ UNCHANGED crewOthers

NextCrew == EnterCrew \/ RunCrewYaml \/ RunCrewAi \/ FallBackToSimple \/ RunSimpleMode

SpecCrew == InitCrew /\ [][NextCrew]_vars

---------------------------------------------------------------------------
(* Claims about run_travel_crew, checked under SpecCrew                    *)

CrewDone == crew_pc = "done"
CrewRunFailed == crew_call.use_crewai /\ crew_call.failure # "none"

\* C20: run_travel_crew always returns a travel plan, and when the CrewAI
\* run fails for any reason it returns the output of run_simple_mode, never
\* an error text and never nothing.  Stated for the calls in which
\* run_simple_mode itself returns its plan.
C20_AlwaysAPlan ==
    (CrewDone /\ crew_call.simple = "plan") =>
        /\ crew_result.kind \in {"crew_output", "simple_plan"}
        /\ CrewRunFailed => crew_result.kind = "simple_plan"

---------------------------------------------------------------------------
(* policy_check_tool, the agents' 'Check Policy Compliance' tool           *)
(* (crew.py and agents/travel_agents.py hold the same function).           *)

MaxDetailLines == 3

\* the names the module tools.policy_rag defines
PolicyRagNames ==
    {"os", "List", "Dict", "SentenceTransformer", "faiss", "USE_EMB",
     "_read_pdf_as_text", "_chunk_text", "load_policy_chunks",
     "check_policy_compliance"}

\* from module import name
CanImport(names, name) == name \in names

RECURSIVE ParsedPairs(_)
\* for line in lines: if ':' in line: key, value = line.split(':', 1);
\* the pairs (key.strip(), value.strip()) in order
ParsedPairs(lines) ==
    IF lines = <<>> THEN <<>>
    ELSE LET line == Head(lines)
             at == FindFrom(line, <<":">>, 1)
         IN  IF at = 0 THEN ParsedPairs(Tail(lines))
             ELSE << [key |-> Strip(SubSeq(line, 1, at - 1)),
                      value |-> Strip(SubSeq(line, at + 1, Len(line)))] >>
                  \o ParsedPairs(Tail(lines))

\* trip[key]: the value assigned last, absent when the key was never set
Lookup(pairs, key) ==
    LET set == {i \in DOMAIN pairs : pairs[i].key = key}
    IN  IF set = {} THEN PyAbsent
        ELSE PyStr(pairs[CHOOSE i \in set : \A j \in set : j <= i].value)

ParsedTrip(trip_text) ==
    LET pairs == ParsedPairs(SplitOn(trip_text, "\n"))
    IN  [destination |-> Lookup(pairs, <<"d","e","s","t","i","n","a","t","i","o","n">>),
         purpose |-> Lookup(pairs, <<"p","u","r","p","o","s","e">>),
         budget |-> Lookup(pairs, <<"b","u","d","g","e","t">>)]

ToolNotCalled == [outcome |-> "none", exc |-> "", report |-> <<>>]

\* the report: the status line, then the violations and the notes under
\* their titles
ToolReport(result) ==
    << Msg("status", result.status) >>
    \o (IF result.violations # <<>>
        THEN <<Msg("violations_title", <<>>)>> \o result.violations ELSE <<>>)
    \o (IF result.notes # <<>>
        THEN <<Msg("notes_title", <<>>)>> \o result.notes ELSE <<>>)

policy_check_tool(trip_text) ==
    LET parsed == ParsedTrip(trip_text)
    IN  IF ~CanImport(PolicyRagNames, "POLICY_CHUNKS")
        THEN [outcome |-> "raised", exc |-> "ImportError", report |-> <<>>]
        ELSE LET result == check_policy_compliance(parsed)
             IN  IF result.outcome = "raised"
                 THEN [outcome |-> "raised", exc |-> result.exc, report |-> <<>>]
                 ELSE [outcome |-> "returned", exc |-> "",
                       report |-> ToolReport(result)]

DetailLines ==
    { <<"d","e","s","t","i","n","a","t","i","o","n",":"," ","D","a","l","l","a","s">>,
      <<"b","u","d","g","e","t",":"," ","2","5","0","0">>,
      <<"p","u","r","p","o","s","e",":"," ","c","l","i","e","n","t"," ","m","e","e","t","i","n","g">>,
      <<"b","u","d","g","e","t",":","a","b","c">>,
      <<"n","o"," ","c","o","l","o","n"," ","h","e","r","e">>,
      <<"B","u","d","g","e","t"," ",":"," ","1","0","0","0">>,
      <<"p","u","r","p","o","s","e",":">> }

InitTool ==
    /\ trip_details = <<>>
    /\ tool_result = ToolNotCalled
    /\ PolicyIdle /\ PrefsIdle /\ PlanIdle /\ LoadIdle /\ BookIdle /\ CrewIdle
    /\ SearchIdle /\ AppIdle /\ ConfirmIdle

toolOthers == <<policyVars, prefsVars, planVars, loadVars, bookVars, crewVars,
                searchVars, appVars, confirmVars>>

LineCount(text) ==
    IF text = <<>> THEN 0
    ELSE Cardinality({i \in DOMAIN text : text[i] = "\n"}) + 1

\* the agent writes one more line of trip_details
AddDetailLine ==
    /\ LineCount(trip_details) < MaxDetailLines
    /\ \E l \in DetailLines :
          trip_details' = IF trip_details = <<>> THEN l
                          ELSE trip_details \o <<"\n">> \o l
    /\ tool_result' = ToolNotCalled
    /\ UNCHANGED toolOthers

PolicyCheckTool ==
    /\ tool_result.outcome = "none"
    /\ tool_result' = policy_check_tool(trip_details)
    /\ UNCHANGED trip_details
    /\ UNCHANGED toolOthers

NextTool == AddDetailLine \/ PolicyCheckTool

SpecTool == InitTool /\ [][NextTool]_vars

---------------------------------------------------------------------------
(* Claims about policy_check_tool, checked under SpecTool                  *)

ToolCalled == tool_result.outcome # "none"

\* C21: for any trip_details text the tool returns a report that begins
\* with the policy status line; it never fails.
C21_ToolReports ==
    ToolCalled =>
        /\ tool_result.outcome = "returned"
        /\ tool_result.report # <<>>
        /\ tool_result.report[1].id = "status"

---------------------------------------------------------------------------
(* The display of flights, checked under SpecPlan                          *)

\* the ranking's view of a flight: the first component of the key it was
\* sorted by
RankedAsDirect(f) == flight_keys[PosIn(flights, f)][1] = 0

\* C30: a flight is shown as direct, in the flight table and in the package
\* details, exactly when the ranking treated it as direct; also a flight
\* that has no 'stops' entry.
C30_DirectShownAsRanked ==
    /\ FlightsRanked =>
          \A i \in DOMAIN flight_table :
              /\ flight_table[i].direct <=> RankedAsDirect(flight_table[i].flight)
              /\ flight_table[i].stops_text = "Direct"
                    <=> RankedAsDirect(flight_table[i].flight)
    /\ (PackagesDone /\ packages.outcome = "returned") =>
          \A i \in DOMAIN packages.list :
              packages.list[i].stops_text = "Direct"
                  <=> RankedAsDirect(packages.list[i].flight)

---------------------------------------------------------------------------
(* search_flights: the generated flights.                                  *)
(* random.uniform is a choice among the ends of its range, written in      *)
(* hundredths; int() of a positive amount drops the fraction.              *)

BasePrice == 450
AirlinesSearched == 5
ConnectingPercent == 92

airlines_routes ==
    << [airline |-> "Delta", price_mult |-> 100],
       [airline |-> "United", price_mult |-> 108],
       [airline |-> "American", price_mult |-> 105],
       [airline |-> "Southwest", price_mult |-> 92],
       [airline |-> "JetBlue", price_mult |-> 95] >>

\* uniform(0.88, 1.12) for 80% of the flights, uniform(1.5, 1.9) for the rest
NormalFactors == {88, 112}
PeakFactors == {150, 190}

\* int(base_price * price_mult * factor), then int(price * 0.92) for a
\* connecting flight
FlightPrice(mult, factor, is_direct) ==
    LET price == (BasePrice * mult * factor) \div 10000
    IN  IF is_direct THEN price ELSE (price * ConnectingPercent) \div 100

GeneratedFlight(info, factor, is_direct) ==
    [airline |-> info.airline,
     price |-> FlightPrice(info.price_mult, factor, is_direct),
     cabin_class |-> "Economy",
     stops |-> IF is_direct THEN 0 ELSE 1]

\* flights.sort(key=lambda x: x['price'])
SortedByPrice(fs) == SortedBy(fs, [i \in 1..Len(fs) |-> <<fs[i].price>>])

InitSearch ==
    /\ found_flights = <<>>
    /\ search_pc = "generating"
    /\ PolicyIdle /\ PrefsIdle /\ PlanIdle /\ LoadIdle /\ BookIdle /\ CrewIdle
    /\ ToolIdle /\ AppIdle /\ ConfirmIdle

searchOthers == <<policyVars, prefsVars, planVars, loadVars, bookVars, crewVars,
                  toolVars, appVars, confirmVars>>

\* one turn of the loop over the airlines; after the last airline the list
\* is sorted by price and returned
GenerateFlight ==
    /\ search_pc = "generating"
    /\ \E factor \in NormalFactors \cup PeakFactors, is_direct \in BOOLEAN :
          LET info == airlines_routes[Len(found_flights) + 1]
              fs == Append(found_flights, GeneratedFlight(info, factor, is_direct))
          IN  IF Len(fs) = AirlinesSearched
              THEN found_flights' = SortedByPrice(fs) /\ search_pc' = "done"
              ELSE found_flights' = fs /\ search_pc' = search_pc
    /\ UNCHANGED searchOthers

NextSearch == GenerateFlight

SpecSearch == InitSearch /\ [][NextSearch]_vars

---------------------------------------------------------------------------
(* Claims about search_flights, checked under SpecSearch                   *)

\* C23: every flight search_flights returns is in Economy class and priced
\* under $600.
C23_EconomyUnder600 ==
    search_pc = "done" =>
        \A i \in DOMAIN found_flights :
            /\ found_flights[i].cabin_class = "Economy"
            /\ found_flights[i].price < 600

---------------------------------------------------------------------------
(* The booking application: chat_fn, on_book, book_package and             *)
(* execute_booking, with the module global current_packages                *)

MaxBooked == 1

Sessions == {"s1", "s2"}

NoTrip == [origin |-> "", destination |-> "", depart_date |-> "",
           return_date |-> ""]
AppTrips ==
    { [origin |-> "Dallas", destination |-> "Raleigh",
       depart_date |-> "2025-11-05", return_date |-> "2025-11-08"],
      [origin |-> "Chicago", destination |-> "Miami",
       depart_date |-> "2025-12-01", return_date |-> "2025-12-03"] }

PackageChoices == {"Package 1 - Best Value", "Package 2 - Preferred Airlines",
                   "Package 3 - Premium Option"}

\* package_num of on_book: the number named in the choice, else "1"
PackageNumber(package_choice) ==
    CASE package_choice = "Package 1 - Best Value" -> 1
      [] package_choice = "Package 2 - Preferred Airlines" -> 2
      [] package_choice = "Package 3 - Premium Option" -> 3
      [] OTHER -> 1

\* what one round of search_flights, search_hotels and search_rental_cars
\* returns: each list in the order of its price
SearchOutcomes ==
    { [flights |-> <<FlightPool[2], FlightPool[1], FlightPool[3]>>,
       hotels |-> <<HotelPool[4], HotelPool[2], HotelPool[1]>>,
       cars |-> <<CarPool[3], CarPool[1], CarPool[2]>>],
      [flights |-> <<FlightPool[6], FlightPool[8], FlightPool[9]>>,
       hotels |-> <<HotelPool[4], HotelPool[5], HotelPool[3]>>,
       cars |-> <<CarPool[3], CarPool[4], CarPool[5]>>] }

\* the preferences the plan is ranked with
AppProfile == [airlines |-> <<"Delta">>, hotels |-> <<"Marriott">>,
               cars |-> <<"Enterprise">>]

\* data/travel_profile.json as execute_booking finds it: with a traveler
\* (read from personal_info, or "Unknown Traveler"), or with a personal_info
\* that is no object, whose .get raises
ProfileStates == {"ok", "broken"}

\* the packages of the plan run_travel_crew returns for a search outcome
PlannedPackages(o) ==
    AssembledPackages(SortedBy(o.flights, FlightKeys(o.flights, AppProfile.airlines)),
                      SortedBy(o.hotels, HotelKeys(o.hotels, AppProfile.hotels)),
                      SortedBy(o.cars, CarKeys(o.cars, AppProfile.cars)),
                      AppProfile.airlines, AppProfile.hotels, AppProfile.cars).list

NoPlan == [trip |-> NoTrip, packages |-> <<>>]
EmptyPackages == [stored |-> FALSE, result |-> <<>>, trip |-> NoTrip]
NoSelection == [flight |-> <<>>, hotel |-> <<>>, checkin |-> "", checkout |-> ""]
NoDetails == [flight_cost |-> 0, hotel_cost |-> 0, total_cost |-> 0]
NoBooking ==
    [kind |-> "none", session |-> "", package_num |-> 0, header |-> FALSE,
     trip |-> NoTrip, shown |-> NoPlan, selected |-> NoSelection,
     details |-> NoDetails]

\* not current_packages
NotPackages_Never(packages_stored) == FALSE
NotPackages(packages_stored) == ~packages_stored.stored

\* list[n - 1] if len(list) >= n else list[0]
Selected(list, n) == IF Len(list) >= n THEN list[n] ELSE list[1]

\* execute_booking up to booking_details; the confirmation text shows, and
\* the record stores, these details
execute_booking(selected_package, profile) ==
    IF profile = "broken"
    THEN [outcome |-> "raised", details |-> NoDetails]
    ELSE [outcome |-> "returned",
          details |-> [flight_cost |-> selected_package.flight.price,
                       hotel_cost |-> selected_package.hotel.total_price,
                       total_cost |-> selected_package.flight.price
                                      + selected_package.hotel.total_price]]

\* book_package on the lists a new search returns
book_package(package_number, route, o, profile) ==
    IF o.flights = <<>> \/ o.hotels = <<>>
    THEN [kind |-> "error", selected |-> NoSelection, details |-> NoDetails,
          executed |-> FALSE]
    ELSE LET selected_package ==
                 [flight |-> Selected(o.flights, package_number),
                  hotel |-> Selected(o.hotels, package_number),
                  checkin |-> route.depart_date,
                  checkout |-> route.return_date]
             r == execute_booking(selected_package, profile)
         IN  IF r.outcome = "raised"
             THEN [kind |-> "error", selected |-> selected_package,
                   details |-> NoDetails, executed |-> FALSE]
             ELSE [kind |-> "confirmation", selected |-> selected_package,
                   details |-> r.details, executed |-> TRUE]

\* the record save_booking_record appends
BookingRecord(r) ==
    [checkin |-> r.selected.checkin, total_cost |-> r.details.total_cost]

InitApp(sessions, outcomes) ==
    /\ current_packages = EmptyPackages
    /\ open_sessions = sessions
    /\ search_outcomes = outcomes
    /\ ui = [s \in sessions |-> [pc |-> "idle", pending |-> NoTrip, chat |-> "",
                                shown |-> NoPlan]]
    /\ last_booking = NoBooking
    /\ booking_file = MissingFile
    /\ records_before = <<>>
    /\ save_result = [outcome |-> "none", code |-> ""]
    /\ PolicyIdle /\ PrefsIdle /\ PlanIdle /\ LoadIdle /\ CrewIdle
    /\ ToolIdle /\ SearchIdle /\ ConfirmIdle

\* two browser sessions on one server, one search outcome
InitUi == InitApp(Sessions, {CHOOSE o \in SearchOutcomes : TRUE})

\* one session, every search outcome
InitBooking == InitApp({"s1"}, SearchOutcomes)

appOthers == <<policyVars, prefsVars, planVars, loadVars, crewVars,
               toolVars, searchVars, confirmVars>>

\* chat_fn up to its first yield: the processing message is shown
StartPlan ==
    \E s \in open_sessions :
        /\ ui[s].pc = "idle"
        /\ \E route \in AppTrips :
              ui' = [ui EXCEPT ![s] = [@ EXCEPT !.pc = "planning", !.pending = route,
                                                 !.chat = "processing"]]
        /\ UNCHANGED <<current_packages, last_booking, open_sessions, search_outcomes>>
        /\ UNCHANGED <<bookVars, appOthers>>

\* the rest of chat_fn: run_travel_crew returns the plan, which is stored in
\* current_packages and shown
FinishPlan ==
    \E s \in open_sessions :
        /\ ui[s].pc = "planning"
        /\ \E o \in search_outcomes :
              LET plan == [trip |-> ui[s].pending, packages |-> PlannedPackages(o)]
              IN  /\ current_packages' = [stored |-> TRUE, result |-> plan.packages,
                                          trip |-> plan.trip]
                  /\ ui' = [ui EXCEPT ![s] = [pc |-> "idle", pending |-> NoTrip,
                                              chat |-> "result", shown |-> plan]]
        /\ UNCHANGED <<last_booking, open_sessions, search_outcomes>>
        /\ UNCHANGED <<bookVars, appOthers>>

\* run_travel_crew raises: chat_fn ends without storing anything and the
\* chat keeps the processing message
FailPlan ==
    \E s \in open_sessions :
        /\ ui[s].pc = "planning"
        /\ ui' = [ui EXCEPT ![s] = [@ EXCEPT !.pc = "idle", !.pending = NoTrip]]
        /\ UNCHANGED <<current_packages, last_booking, open_sessions, search_outcomes>>
        /\ UNCHANGED <<bookVars, appOthers>>

\* on_book, with book_package, execute_booking, create_booking_confirmation
\* and save_booking_record
OnBook ==
    \E s \in open_sessions :
        /\ Len(booking_file.records) < MaxBooked
        /\ \E package_choice \in PackageChoices, o \in search_outcomes,
              profile \in ProfileStates, write \in WriteOutcomes :
              IF NotPackages(current_packages)
              THEN /\ last_booking' =
                         [NoBooking EXCEPT !.kind = "please_plan", !.session = s,
                                           !.shown = ui[s].shown]
                   /\ UNCHANGED booking_file
              ELSE LET route == current_packages.trip
                       n == PackageNumber(package_choice)
                       r == book_package(n, route, o, profile)
                   IN  /\ last_booking' =
                             [kind |-> r.kind, session |-> s, package_num |-> n,
                              header |-> TRUE, trip |-> route, shown |-> ui[s].shown,
                              selected |-> r.selected, details |-> r.details]
                       /\ booking_file' =
                             IF r.executed
                             THEN save_booking_record(booking_file,
                                                      BookingRecord(r), write).file
                             ELSE booking_file
        /\ UNCHANGED <<current_packages, ui, open_sessions, search_outcomes>>
        /\ UNCHANGED <<records_before, save_result, appOthers>>

NextApp == StartPlan \/ FinishPlan \/ FailPlan \/ OnBook

SpecUi == InitUi /\ [][NextApp]_vars
SpecBooking == InitBooking /\ [][NextApp]_vars

---------------------------------------------------------------------------
(* Claims about the events of the application, checked under SpecUi        *)

\* some chat_fn call has returned its plan
SomePlanCompleted == \E s \in open_sessions : ui[s].shown # NoPlan

\* C22: while no planning call has completed, on_book answers with the
\* request to plan a trip first, no booking is executed and the booking
\* history stays as it was.
C22_PlanFirst ==
    ~SomePlanCompleted =>
        /\ last_booking.kind \in {"none", "please_plan"}
        /\ booking_file = MissingFile

C22_Witness ==
    /\ ~SomePlanCompleted
    /\ last_booking.kind = "please_plan"
    /\ \E s \in open_sessions : ui[s].pc = "planning"

\* C26: when book_package returned an error text, on_book does not show the
\* "Booking Confirmed!" header.
C26_HeaderOnlyOnSuccess ==
    last_booking.kind = "error" => ~last_booking.header

\* C29: on_book of a session that has planned a trip books that trip, never
\* the one another session planned later.
C29_OwnTrip ==
    (last_booking.kind \in {"confirmation", "error"}
        /\ last_booking.shown # NoPlan)
    => last_booking.trip = last_booking.shown.trip

---------------------------------------------------------------------------
(* Claims about the booked package, checked under SpecBooking              *)

ShownPackage == last_booking.shown.packages[last_booking.package_num]

\* C24: the flight and the hotel booked for package k are the flight and
\* the hotel of package k of the plan last shown.
C24_BooksShownPackage ==
    last_booking.kind = "confirmation" =>
        /\ last_booking.selected.flight = ShownPackage.flight
        /\ last_booking.selected.hotel = ShownPackage.hotel

\* C25: the total of a confirmation is the price of the booked flight plus
\* the total of the booked hotel plus the cost of the package's rental car.
C25_TotalWithCar ==
    last_booking.kind = "confirmation" =>
        last_booking.details.total_cost
            = last_booking.selected.flight.price
              + last_booking.selected.hotel.total_price
              + ShownPackage.car.total_cost

---------------------------------------------------------------------------
(* create_booking_confirmation and save_booking_record, statement by       *)
(* statement, for calls that run at the same time.  The clock counts       *)
(* fractions of a second.                                                  *)

MaxClock == 3
TicksPerSecond == 2

Callers == {"a", "b"}

\* f"CONF{datetime.now().strftime('%Y%m%d%H%M%S')}": the time cut to the
\* whole second
ConfirmationCode(t) == <<"CONF", t \div TicksPerSecond>>

\* the record of a call: its code, datetime.now().isoformat() and details
NewRecord(confirmation_code, t, details) ==
    [confirmation_code |-> confirmation_code, timestamp |-> t,
     details |-> details]

CallNotStarted == [pc |-> "start", confirmation_code |-> <<>>, bookings |-> <<>>]

InitConfirm ==
    /\ clock = 0
    /\ calls = [c \in Callers |-> CallNotStarted]
    /\ booking_file = MissingFile
    /\ records_before = <<>>
    /\ save_result = [outcome |-> "none", code |-> ""]
    /\ PolicyIdle /\ PrefsIdle /\ PlanIdle /\ LoadIdle /\ CrewIdle
    /\ ToolIdle /\ SearchIdle /\ AppIdle

confirmOthers == <<policyVars, prefsVars, planVars, loadVars, crewVars,
                   toolVars, searchVars, appVars, records_before, save_result>>

Tick ==
    /\ clock < MaxClock
    /\ clock' = clock + 1
    /\ UNCHANGED <<calls, booking_file, confirmOthers>>

\* create_booking_confirmation up to the call of save_booking_record
MakeCode ==
    \E c \in Callers :
        /\ calls[c].pc = "start"
        /\ calls' = [calls EXCEPT ![c] =
                        [@ EXCEPT !.pc = "coded",
                                  !.confirmation_code = ConfirmationCode(clock)]]
        /\ UNCHANGED <<clock, booking_file, confirmOthers>>

\* bookings = json.load(f), or [], and bookings.append(record)
ReadAndAppend ==
    \E c \in Callers :
        /\ calls[c].pc = "coded"
        /\ calls' = [calls EXCEPT ![c] =
                        [@ EXCEPT !.pc = "appended",
                                  !.bookings =
                                      Append(LoadBookings(booking_file),
                                             NewRecord(calls[c].confirmation_code,
                                                       clock, c))]]
        /\ UNCHANGED <<clock, booking_file, confirmOthers>>

\* open("data/booking_history.json", 'w') empties the file
OpenForWrite ==
    \E c \in Callers :
        /\ calls[c].pc = "appended"
        /\ booking_file' = BrokenFile
        /\ calls' = [calls EXCEPT ![c] = [@ EXCEPT !.pc = "opened"]]
        /\ UNCHANGED <<clock, confirmOthers>>

\* json.dump(bookings, f, indent=2) and the return of the confirmation
DumpBookings ==
    \E c \in Callers :
        /\ calls[c].pc = "opened"
        /\ booking_file' = JsonFile(calls[c].bookings)
        /\ calls' = [calls EXCEPT ![c] = [@ EXCEPT !.pc = "done"]]
        /\ UNCHANGED <<clock, confirmOthers>>

NextConfirm == Tick \/ MakeCode \/ ReadAndAppend \/ OpenForWrite \/ DumpBookings

SpecConfirm == InitConfirm /\ [][NextConfirm]_vars

---------------------------------------------------------------------------
(* Claims about concurrent and repeated bookings, checked under            *)
(* SpecConfirm                                                             *)

\* C27: no two records of the booking history carry the same
\* confirmation code.
C27_UniqueCodes ==
    \A i, j \in DOMAIN booking_file.records :
        i # j => booking_file.records[i].confirmation_code
                     # booking_file.records[j].confirmation_code

AllCallsDone == \A c \in Callers : calls[c].pc = "done"
RecordOf(c) ==
    {i \in DOMAIN booking_file.records : booking_file.records[i].details = c}

\* C28: once both calls have finished, the booking history holds the
\* record of each of them.
C28_BothRecordsKept ==
    AllCallsDone => \A c \in Callers : RecordOf(c) # {}

=============================================================================
